---- MODULE Spec2Model ----
(***************************************************************************)
(* The diagram editor of src/App.tsx as a state machine: the React state   *)
(* and refs of the App component are the variables, and every event        *)
(* handler is one action.  React flushes the state updates of a handler    *)
(* before the next event is dispatched, so a handler is one atomic step    *)
(* that reads the state of the last render.                                *)
(*                                                                         *)
(* Numbers are the integers of the pointer coordinates; an absent value    *)
(* (null) of an id is NULL, and a nullable object is a sequence of length  *)
(* 0 (null) or 1 (the object).  A node id `node-${Date.now()}` and a       *)
(* connection id `conn-${Date.now()}` are modelled by the clock reading.   *)
(* mousePos (App.tsx:60) feeds only the rendering of the temporary line    *)
(* and is not part of the model.  lastEvent is a history variable: the     *)
(* event of the last step and the branch its handler took.                 *)
(*                                                                         *)
(* The second group of variables is the persistence and the generation of  *)
(* diagrams: the browser's localStorage behind storageService (part_003),  *)
(* the canvas that is open, the timers of the auto-save effect, the prompt *)
(* dialog and the requests to the external model, and the file reads of    *)
(* an import.  The specifications of the pointer and keyboard interaction  *)
(* leave this group as the mount of the component left it.                 *)
(***************************************************************************)
EXTENDS Integers, Sequences, FiniteSets, TLC

VARIABLES
    now,                  \* the reading of Date.now()
    nodes,                \* App.tsx:27
    connections,          \* App.tsx:28
    selectedNodeIds,      \* App.tsx:31
    selectedConnectionId, \* App.tsx:32
    selectionBox,         \* App.tsx:33
    selectionBaseline,    \* App.tsx:34 (ref)
    connectionDraft,      \* App.tsx:37
    draggingNodeId,       \* App.tsx:45
    dragStartMousePos,    \* App.tsx:46 (ref)
    dragStartNodes,       \* App.tsx:47 (ref)
    resizingNodeId,       \* App.tsx:50
    resizeStartPos,       \* App.tsx:51 (ref)
    initialNodeSize,      \* App.tsx:52 (ref)
    lastEvent             \* history: the last event handled

VARIABLES
    localStorage,         \* the browser's key-value store (part_003:10-72)
    storeEvent,           \* history: the last call of storageService
    currentCanvasId,      \* App.tsx:20
    currentCanvasName,    \* App.tsx:22
    canvases,             \* App.tsx:23
    nextUuid,             \* the ids crypto.randomUUID() has not yet returned
    skipSave,             \* App.tsx:79 (ref)
    skipTimers,           \* the pending timers of App.tsx:113-115
    saveTimer,            \* the pending timer of App.tsx:87-89 and its closure
    dirty,                \* history: the diagram was edited since it was loaded
    isAIGenerating,       \* App.tsx:55
    showAIPrompt,         \* App.tsx:56
    aiPromptText,         \* App.tsx:57
    requests,             \* the calls of generateWorkflow that have not settled
    fileReads             \* the FileReader reads that have not finished

progVars == <<now, nodes, connections, selectedNodeIds, selectedConnectionId,
              selectionBox, selectionBaseline, connectionDraft, draggingNodeId,
              dragStartMousePos, dragStartNodes, resizingNodeId, resizeStartPos,
              initialNodeSize>>

storeVars == <<localStorage, storeEvent>>
docVars == <<currentCanvasId, currentCanvasName, canvases, nextUuid>>
saveVars == <<skipSave, skipTimers, saveTimer, dirty>>
aiVars == <<isAIGenerating, showAIPrompt, aiPromptText, requests>>
appVars == <<storeVars, docVars, saveVars, aiVars, fileReads>>

vars == <<progVars, lastEvent, appVars>>

graphVars == <<nodes, connections>>
selVars == <<selectedNodeIds, selectedConnectionId>>
boxVars == <<selectionBox, selectionBaseline>>
dragVars == <<draggingNodeId, dragStartMousePos, dragStartNodes>>
resizeVars == <<resizingNodeId, resizeStartPos, initialNodeSize>>

----------------------------------------------------------------------------
(* Bounds of the model and constants of the program *)

MaxNodes == 2
MaxClock == 2
MaxCursor == 1
ClickX == 300
ClickY == 100
StepX == 120
StepY == 120
AddX == 100
AddY == 50
MaxCoord == 300
MaxSize == 400
MaxConnections == 2

MinWidth == 150
MinHeight == 80
DefaultWidth == 256
DefaultHeight == 160

NULL == 0

\* the one position (clientX, clientY) the pointer events of Spec carry: a
\* point inside a node that addNode has placed
Clicks == {[x |-> ClickX, y |-> ClickY]}

\* the positions the pointer events of SpecMove carry
Cursors == {[x |-> ClickX + i * StepX, y |-> ClickY + i * StepY] : i \in 0..MaxCursor}

Handles == {"source", "target"}

----------------------------------------------------------------------------
(* Array helpers *)

Max(a, b) == IF a >= b THEN a ELSE b
Min(a, b) == IF a <= b THEN a ELSE b

\* Array.prototype.includes
Includes(s, e) == \E i \in 1..Len(s) : s[i] = e

\* Array.from(new Set(s)): the first occurrence of every element, in order
RECURSIVE Dedup(_)
Dedup(s) ==
    IF s = <<>> THEN <<>>
    ELSE LET r == Dedup(SubSeq(s, 1, Len(s) - 1))
             e == s[Len(s)]
         IN IF Includes(r, e) THEN r ELSE Append(r, e)

\* nodes.find(n => n.id === id): the index of the first match, 0 if none
FindNode(ns, id) ==
    IF \E i \in 1..Len(ns) : ns[i].id = id
    THEN CHOOSE i \in 1..Len(ns) :
            ns[i].id = id /\ \A j \in 1..(i - 1) : ns[j].id # id
    ELSE 0

NodeIds(ns) == {ns[i].id : i \in 1..Len(ns)}

\* the history record of an event: its name, the id and the cursor it carried,
\* a flag of the event (modifier key held, text control focused), the branch
\* the handler took and the connection draft it found
\* cancelled tells whether Escape has reached the window handler since the
\* last pointer-down or pointer-up
EvD(name, id, c, flag, branch, draft) ==
    [name |-> name, id |-> id, c |-> c, flag |-> flag, branch |-> branch, draft |-> draft,
     cancelled |-> IF name = "escape" THEN ~flag
                   ELSE IF name \in {"init", "pointerUp", "nodePointerUp", "pointerDownCanvas",
                                     "pointerDownNode", "resizeStart", "connectStart"}
                        THEN FALSE
                   ELSE lastEvent.cancelled]

Ev(name, id, c, flag, branch) == EvD(name, id, c, flag, branch, <<>>)

NoCursor == [x |-> 0, y |-> 0]

----------------------------------------------------------------------------
(* storageService (part_003:6-88) over the browser's localStorage.  An      *)
(* entry of the store is the text under one key: no text (getItem returns   *)
(* null), the text JSON.stringify made of a value, or a text JSON.parse     *)
(* rejects.  `value` is the sequence of metadata records under the index    *)
(* key, and a sequence of one document under a document's key.  A call      *)
(* returns a value or throws.                                               *)

\* the ids crypto.randomUUID() (part_003:81, App.tsx:447) can return
MaxCanvases == 3
CanvasIds == 1..MaxCanvases

Entry(text, value) == [text |-> text, value |-> value]
NoEntry == Entry("none", <<>>)
Garbled == Entry("garbled", <<>>)

\* JSON.stringify (part_003:35, 57, 72)
JSONstringify(value) == Entry("json", value)

Return(value) == [threw |-> FALSE, value |-> value]
Throw == [threw |-> TRUE, value |-> <<>>]

\* JSON.parse (part_003:12, 24) of a text that getItem returned
JSONparse(entry) == IF entry.text = "json" THEN Return(entry.value) ELSE Throw

\* the calls of localStorage that can throw: the read (the store is
\* unavailable), the write of a document, the write of the index (the quota
\* is exceeded), the removal of a document
Faults == {"none", "getItem", "setItem", "setIndex", "removeItem"}

\* a variant of TryCatch that lets the exception through;
\* C23_FailuresContained tells the two apart
Rethrow(body, fallback) == body

\* try { body } catch (e) { console.error(...); return fallback }
\* (part_003:9-16, 21-28, 33-60, 65-75)
TryCatch(body, fallback) == IF body.threw THEN Return(fallback) ELSE body

\* part_003:8-17
getCanvases(ls, fault) ==
    TryCatch(IF fault = "getItem" THEN Throw
             ELSE IF ls.index.text = "none" THEN Return(<<>>)
             ELSE JSONparse(ls.index),
             <<>>)

\* part_003:20-29; the value is a sequence of no document (null) or of one
storageService_loadCanvas(ls, id, fault) ==
    TryCatch(IF fault = "getItem" THEN Throw
             ELSE IF ls.canvas[id].text = "none" THEN Return(<<>>)
             ELSE JSONparse(ls.canvas[id]),
             <<>>)

\* the place of s[from..] that Array.prototype.sort gives m: behind every
\* element that is not older, the sort being stable
InsertSorted(sorted, m) ==
    LET k == Cardinality({i \in 1..Len(sorted) :
                             sorted[i].lastModified >= m.lastModified})
    IN SubSeq(sorted, 1, k) \o <<m>> \o SubSeq(sorted, k + 1, Len(sorted))

\* a variant of SortDesc that leaves the list as it is;
\* C21_IndexSorted tells the two apart
SortNone(s) == s

\* part_003:55: newCanvases.sort((a, b) => b.lastModified - a.lastModified)
RECURSIVE SortDesc(_)
SortDesc(s) ==
    IF s = <<>> THEN <<>>
    ELSE InsertSorted(SortDesc(SubSeq(s, 1, Len(s) - 1)), s[Len(s)])

\* canvases.findIndex(c => c.id === id) (part_003:39), 0 for -1
FindIndex(s, id) ==
    IF \E i \in 1..Len(s) : s[i].id = id
    THEN CHOOSE i \in 1..Len(s) : s[i].id = id /\ \A j \in 1..(i - 1) : s[j].id # id
    ELSE 0

\* part_003:41-45
Metadata(canvas, clock) == [id |-> canvas.id, name |-> canvas.name, lastModified |-> clock]

\* a variant of UpsertMetadata that always appends;
\* C22_UpsertAndDelete tells the two apart
UpsertMetadataAppending(list, metadata) == Append(list, metadata)

\* part_003:39, 47-52
UpsertMetadata(list, metadata) ==
    LET existingIndex == FindIndex(list, metadata.id)
    IN IF existingIndex > 0 THEN [list EXCEPT ![existingIndex] = metadata]
       ELSE Append(list, metadata)

\* part_003:32-61: the store saveCanvas leaves, and whether it threw
saveCanvas(ls, canvas, clock, fault) ==
    LET ls1 == [ls EXCEPT !.canvas[canvas.id] = JSONstringify(<<canvas>>)]
        list == getCanvases(ls1, fault).value
        newCanvases == SortDesc(UpsertMetadata(list, Metadata(canvas, clock)))
        body == IF fault = "setItem" THEN [threw |-> TRUE, value |-> ls]
                ELSE IF fault = "setIndex" THEN [threw |-> TRUE, value |-> ls1]
                ELSE Return([ls1 EXCEPT !.index = JSONstringify(newCanvases)])
    IN TryCatch(body, body.value)

\* part_003:64-76: the store deleteCanvas leaves, and whether it threw
storageService_deleteCanvas(ls, id, fault) ==
    LET ls1 == [ls EXCEPT !.canvas[id] = NoEntry]
        list == getCanvases(ls1, fault).value
        newCanvases == SelectSeq(list, LAMBDA c : c.id # id)
        body == IF fault = "removeItem" THEN [threw |-> TRUE, value |-> ls]
                ELSE IF fault = "setIndex" THEN [threw |-> TRUE, value |-> ls1]
                ELSE Return([ls1 EXCEPT !.index = JSONstringify(newCanvases)])
    IN TryCatch(body, body.value)

\* part_003:79-87
createCanvas(id, name, clock) ==
    [id |-> id, name |-> name, nodes |-> <<>>, connections |-> <<>>,
     lastModified |-> clock]

\* a store without any key
EmptyStorage == [index |-> NoEntry, canvas |-> [id \in CanvasIds |-> NoEntry]]

\* template literal `New Canvas ${canvases.length + 1}` (App.tsx:124)
NewCanvasName(k) ==
    IF k = 1 THEN "New Canvas 1" ELSE IF k = 2 THEN "New Canvas 2"
    ELSE IF k = 3 THEN "New Canvas 3" ELSE "New Canvas 4"

StoreEvent(op, id, canvas, fault, threw, value) ==
    [op |-> op, id |-> id, canvas |-> canvas, fault |-> fault, threw |-> threw,
     value |-> value, failed |-> storeEvent.failed \/ fault # "none",
     existed |-> IF id = NULL THEN FALSE ELSE localStorage.canvas[id].text # "none"]

\* App.tsx:55-57, 79: nothing is pending and nothing has been called
InitIdle ==
    /\ storeEvent = [op |-> "init", id |-> NULL, canvas |-> <<>>, fault |-> "none",
                     threw |-> FALSE, value |-> <<>>, failed |-> FALSE,
                     existed |-> FALSE]
    /\ saveTimer = <<>>
    /\ dirty = FALSE
    /\ isAIGenerating = FALSE
    /\ showAIPrompt = FALSE
    /\ aiPromptText = ""
    /\ requests = <<>>
    /\ fileReads = <<>>

\* App.tsx:65-75 and 123-134: the mount on an empty store. createNewCanvas
\* has stored and opened a canvas with the first id, at the clock reading 1;
\* the timer of App.tsx:113-115 is pending
InitApp ==
    /\ localStorage = saveCanvas(EmptyStorage, createCanvas(1, NewCanvasName(1), 1),
                                 1, "none").value
    /\ currentCanvasId = 1
    /\ currentCanvasName = NewCanvasName(1)
    /\ canvases = getCanvases(localStorage, "none").value
    /\ nextUuid = 2
    /\ skipSave = TRUE
    /\ skipTimers = 1
    /\ InitIdle

----------------------------------------------------------------------------
InitRefs ==
    /\ selectedNodeIds = <<>>
    /\ selectedConnectionId = NULL
    /\ selectionBox = <<>>
    /\ selectionBaseline = <<>>
    /\ connectionDraft = <<>>
    /\ draggingNodeId = NULL
    /\ dragStartMousePos = [x |-> 0, y |-> 0]
    /\ dragStartNodes = <<>>
    /\ resizingNodeId = NULL
    /\ resizeStartPos = [x |-> 0, y |-> 0]
    /\ initialNodeSize = [width |-> 0, height |-> 0]
    /\ lastEvent = [name |-> "init", id |-> NULL, c |-> NoCursor, flag |-> FALSE,
                    branch |-> "", draft |-> <<>>, cancelled |-> FALSE]

\* App.tsx:20-60 and 123-134: the new, empty canvas of a first start
Init ==
    /\ now = 1
    /\ nodes = <<>>
    /\ connections = <<>>
    /\ InitRefs
    /\ InitApp

\* Date.now() advances between two events (or does not)
Tick(limit) ==
    /\ now < limit
    /\ now' = now + 1
    /\ lastEvent' = Ev("tick", NULL, NoCursor, FALSE, "")
    /\ UNCHANGED <<graphVars, selVars, boxVars, connectionDraft, dragVars, resizeVars>>

\* App.tsx:348-358
NewNode(id, x, y) ==
    [id |-> id, x |-> x, y |-> y, width |-> DefaultWidth, height |-> DefaultHeight,
     title |-> "New Task", description |-> "Click to edit details...",
     status |-> "todo", type |-> "task"]

\* App.tsx:344-362
addNode ==
    /\ Len(nodes) < MaxNodes
    /\ nodes' = Append(nodes, NewNode(now, AddX, AddY))
    /\ selectedNodeIds' = <<now>>
    /\ selectedConnectionId' = NULL
    /\ lastEvent' = Ev("addNode", now, NoCursor, FALSE, "")
    /\ UNCHANGED <<now, connections, boxVars, connectionDraft, dragVars, resizeVars>>

\* a variant of handlePointerDownCanvas that never records the baseline;
\* C14_CanvasPointerDown tells the two apart
handlePointerDownCanvasNoBaseline(c, modifier) ==
    /\ IF ~modifier
       THEN selectedNodeIds' = <<>>
       ELSE UNCHANGED selectedNodeIds
    /\ selectionBaseline' = <<>>
    /\ selectedConnectionId' = NULL
    /\ selectionBox' = <<[startX |-> c.x, startY |-> c.y, endX |-> c.x, endY |-> c.y]>>
    /\ lastEvent' = Ev("pointerDownCanvas", NULL, c, modifier, "")
    /\ UNCHANGED <<now, graphVars, connectionDraft, dragVars, resizeVars>>

\* App.tsx:168-188, a pointer-down that reaches the canvas itself (no nodeId)
handlePointerDownCanvas(c, modifier) ==
    /\ IF ~modifier
       THEN /\ selectedNodeIds' = <<>>
            /\ selectionBaseline' = <<>>
       ELSE /\ selectionBaseline' = selectedNodeIds
            /\ UNCHANGED selectedNodeIds
    /\ selectedConnectionId' = NULL
    /\ selectionBox' = <<[startX |-> c.x, startY |-> c.y, endX |-> c.x, endY |-> c.y]>>
    /\ lastEvent' = Ev("pointerDownCanvas", NULL, c, modifier, "")
    /\ UNCHANGED <<now, graphVars, connectionDraft, dragVars, resizeVars>>

\* App.tsx:211-212, the positions of the nodes to drag
DragSnapshot(ns, ids) ==
    LET picked == SelectSeq(ns, LAMBDA n : Includes(ids, n.id))
    IN [i \in 1..Len(picked) |->
          [id |-> picked[i].id, startX |-> picked[i].x, startY |-> picked[i].y]]

\* a variant of ClickSelection in which a pointer-down without a modifier
\* always replaces the selection; C12_PlainClickAmended tells the two apart
ClickSelectionReplacing(sel, nodeId, modifier) ==
    IF ~modifier THEN <<nodeId>>
    ELSE IF ~Includes(sel, nodeId) THEN Append(sel, nodeId)
    ELSE SelectSeq(sel, LAMBDA id : id # nodeId)

\* a variant of ClickSelection in which a modifier only adds; C13_ModifierToggles
\* tells the two apart
ClickSelectionAdding(sel, nodeId, modifier) ==
    IF ~Includes(sel, nodeId)
    THEN IF ~modifier THEN <<nodeId>> ELSE Append(sel, nodeId)
    ELSE sel

\* App.tsx:194-206, the selection after a pointer-down on node nodeId
ClickSelection(sel, nodeId, modifier) ==
    IF ~Includes(sel, nodeId)
    THEN IF ~modifier THEN <<nodeId>> ELSE Append(sel, nodeId)
    ELSE IF modifier THEN SelectSeq(sel, LAMBDA id : id # nodeId)
    ELSE sel

\* App.tsx:190-214, a pointer-down on the body of node nodeId
\* (NodeItem.handlePointerDown, part_002:267-283, passes node.id)
handlePointerDownNode(nodeId, c, modifier) ==
    IF FindNode(nodes, nodeId) = 0
    THEN /\ lastEvent' = Ev("pointerDownNode", nodeId, c, modifier, "none")
         /\ UNCHANGED progVars
    ELSE IF Includes(selectedNodeIds, nodeId) /\ modifier
    THEN /\ selectedNodeIds' = ClickSelection(selectedNodeIds, nodeId, modifier)
         /\ lastEvent' = Ev("pointerDownNode", nodeId, c, modifier, "deselect")
         /\ UNCHANGED <<now, graphVars, selectedConnectionId, boxVars,
                        connectionDraft, dragVars, resizeVars>>
    ELSE LET newSelectedIds == ClickSelection(selectedNodeIds, nodeId, modifier)
         IN /\ selectedNodeIds' = newSelectedIds
            /\ draggingNodeId' = nodeId
            /\ selectedConnectionId' = NULL
            /\ dragStartNodes' = DragSnapshot(nodes, newSelectedIds)
            /\ dragStartMousePos' = [x |-> c.x, y |-> c.y]
            /\ lastEvent' = Ev("pointerDownNode", nodeId, c, modifier, "drag")
            /\ UNCHANGED <<now, graphVars, boxVars, connectionDraft, resizeVars>>

\* App.tsx:217-226
handleResizeStart(nodeId, c) ==
    LET i == FindNode(nodes, nodeId)
    IN IF i = 0
       THEN /\ lastEvent' = Ev("resizeStart", nodeId, c, FALSE, "none")
            /\ UNCHANGED progVars
       ELSE /\ resizingNodeId' = nodeId
            /\ resizeStartPos' = [x |-> c.x, y |-> c.y]
            /\ initialNodeSize' = [width |-> nodes[i].width, height |-> nodes[i].height]
            /\ lastEvent' = Ev("resizeStart", nodeId, c, FALSE, "resize")
            /\ UNCHANGED <<now, graphVars, selVars, boxVars, connectionDraft, dragVars>>

\* App.tsx:228-245
handleConnectStart(nodeId, handle) ==
    LET i == FindNode(nodes, nodeId)
    IN IF i = 0
       THEN /\ lastEvent' = Ev("connectStart", nodeId, NoCursor, FALSE, "none")
            /\ UNCHANGED progVars
       ELSE LET node == nodes[i]
                startX == IF handle = "source" THEN node.x + node.width ELSE node.x
                startY == node.y + (node.height \div 2)
            IN /\ connectionDraft' = <<[startNodeId |-> nodeId, startHandle |-> handle,
                                        startX |-> startX, startY |-> startY]>>
               /\ lastEvent' = Ev("connectStart", nodeId, NoCursor, FALSE, handle)
               /\ UNCHANGED <<now, graphVars, selVars, boxVars, dragVars, resizeVars>>

\* a variant of DraftEdge that ignores the handle; C5_DirectionNormalized
\* tells the two apart
DraftEdgeForward(draft, targetNodeId) ==
    [from |-> draft.startNodeId, to |-> targetNodeId]

\* App.tsx:255-261, the direction of the edge a draft makes when released over
\* targetNodeId
DraftEdge(draft, targetNodeId) ==
    IF draft.startHandle = "target"
    THEN [from |-> targetNodeId, to |-> draft.startNodeId]
    ELSE [from |-> draft.startNodeId, to |-> targetNodeId]

\* App.tsx:263, connections.some(c => c.from === from && c.to === to)
EdgeExists(cs, from, to) ==
    \E k \in 1..Len(cs) : cs[k].from = from /\ cs[k].to = to

\* a variant of ConnectEndConnections without the test of App.tsx:263-264;
\* C4_IrreflexiveDeduplicated tells the two apart
ConnectEndConnectionsUnchecked(cs, draft, targetNodeId, clock) ==
    IF draft = <<>> THEN cs
    ELSE IF draft[1].startNodeId = targetNodeId THEN cs
    ELSE Append(cs, [id |-> clock, from |-> draft[1].startNodeId, to |-> targetNodeId])

\* App.tsx:247-274, the connection list after handleConnectEnd(targetNodeId)
ConnectEndConnections(cs, draft, targetNodeId, clock) ==
    IF draft = <<>> THEN cs
    ELSE IF draft[1].startNodeId = targetNodeId THEN cs
    ELSE LET e == DraftEdge(draft[1], targetNodeId)
         IN IF ~EdgeExists(cs, e.from, e.to)
            THEN Append(cs, [id |-> clock, from |-> e.from, to |-> e.to])
            ELSE cs

\* the branch handleConnectEnd takes
ConnectEndBranch(cs, draft, targetNodeId) ==
    IF draft = <<>> THEN "none"
    ELSE IF draft[1].startNodeId = targetNodeId THEN "self"
    ELSE IF EdgeExists(cs, DraftEdge(draft[1], targetNodeId).from,
                           DraftEdge(draft[1], targetNodeId).to) THEN "exists"
    ELSE "added"

\* a variant of handlePointerUp that leaves the resize on; C18_PointerUpEndsModes
\* tells the two apart
handlePointerUpKeepingResize ==
    /\ draggingNodeId' = NULL
    /\ connectionDraft' = <<>>
    /\ selectionBox' = <<>>
    /\ lastEvent' = EvD("pointerUp", NULL, NoCursor, FALSE, "", connectionDraft)
    /\ UNCHANGED <<now, graphVars, selVars, selectionBaseline, dragStartMousePos,
                   dragStartNodes, resizeVars>>

\* a variant of handlePointerUp that also empties the node selection;
\* C6_ReleaseOverCanvas tells the two apart
handlePointerUpDeselecting ==
    /\ draggingNodeId' = NULL
    /\ resizingNodeId' = NULL
    /\ connectionDraft' = <<>>
    /\ selectionBox' = <<>>
    /\ selectedNodeIds' = <<>>
    /\ lastEvent' = EvD("pointerUp", NULL, NoCursor, FALSE, "", connectionDraft)
    /\ UNCHANGED <<now, graphVars, selectedConnectionId, selectionBaseline,
                   dragStartMousePos, dragStartNodes, resizeStartPos, initialNodeSize>>

\* App.tsx:335-342, pointer-up or pointer-leave on the canvas
handlePointerUp ==
    /\ draggingNodeId' = NULL
    /\ resizingNodeId' = NULL
    /\ connectionDraft' = <<>>
    /\ selectionBox' = <<>>
    /\ lastEvent' = EvD("pointerUp", NULL, NoCursor, FALSE, "", connectionDraft)
    /\ UNCHANGED <<now, graphVars, selVars, selectionBaseline, dragStartMousePos,
                   dragStartNodes, resizeStartPos, initialNodeSize>>

\* part_002:326, a pointer-up over node targetNodeId: onConnectEnd(node.id)
\* (App.tsx:247-274), then the event bubbles to the canvas (App.tsx:528)
NodePointerUp(targetNodeId) ==
    /\ connections' = ConnectEndConnections(connections, connectionDraft, targetNodeId, now)
    /\ Len(connections') <= MaxConnections
    /\ draggingNodeId' = NULL
    /\ resizingNodeId' = NULL
    /\ connectionDraft' = <<>>
    /\ selectionBox' = <<>>
    /\ lastEvent' = EvD("nodePointerUp", targetNodeId, NoCursor, FALSE,
                        ConnectEndBranch(connections, connectionDraft, targetNodeId),
                        connectionDraft)
    /\ UNCHANGED <<now, nodes, selVars, selectionBaseline, dragStartMousePos,
                   dragStartNodes, resizeStartPos, initialNodeSize>>

\* a variant of ResizedNodes without the minimum size; C10_ResizeClamped
\* tells the two apart
ResizedNodesUnclamped(ns, id, size, dx, dy) ==
    [i \in 1..Len(ns) |->
        IF ns[i].id = id
        THEN [ns[i] EXCEPT !.width = size.width + dx, !.height = size.height + dy]
        ELSE ns[i]]

\* a variant of ResizedNodes that forgets to compare the ids; C11_ResizeFrame
\* tells the two apart
ResizedNodesAll(ns, id, size, dx, dy) ==
    [i \in 1..Len(ns) |->
        [ns[i] EXCEPT !.width = Max(MinWidth, size.width + dx),
                      !.height = Max(MinHeight, size.height + dy)]]

\* App.tsx:284-293, the node list after a resize move by (dx, dy)
ResizedNodes(ns, id, size, dx, dy) ==
    [i \in 1..Len(ns) |->
        IF ns[i].id = id
        THEN [ns[i] EXCEPT !.width = Max(MinWidth, size.width + dx),
                           !.height = Max(MinHeight, size.height + dy)]
        ELSE ns[i]]

\* dragStartNodes.current.find(s => s.id === id): the first index, 0 if none
FindStart(starts, id) ==
    IF \E k \in 1..Len(starts) : starts[k].id = id
    THEN CHOOSE k \in 1..Len(starts) :
            starts[k].id = id /\ \A j \in 1..(k - 1) : starts[j].id # id
    ELSE 0

\* App.tsx:302-312, the node list after a drag move by (dx, dy)
DraggedNodes(ns, starts, dx, dy) ==
    [i \in 1..Len(ns) |->
        LET k == FindStart(starts, ns[i].id)
        IN IF k # 0
           THEN [ns[i] EXCEPT !.x = starts[k].startX + dx,
                              !.y = starts[k].startY + dy]
           ELSE ns[i]]

\* App.tsx:320-328, the ids of the nodes that overlap the rectangle from the
\* marquee's start to (ex, ey), in node order
IntersectingIds(ns, box, ex, ey) ==
    LET minX == Min(box.startX, ex)
        maxX == Max(box.startX, ex)
        minY == Min(box.startY, ey)
        maxY == Max(box.startY, ey)
        hit == SelectSeq(ns, LAMBDA n : /\ n.x < maxX /\ (n.x + n.width) > minX
                                        /\ n.y < maxY /\ (n.y + n.height) > minY)
    IN [i \in 1..Len(hit) |-> hit[i].id]

\* the part of the plane the model keeps the nodes in
InWindow(ns) ==
    \A i \in 1..Len(ns) :
        /\ ns[i].x \in 0..MaxCoord /\ ns[i].y \in 0..MaxCoord
        /\ ns[i].width <= MaxSize /\ ns[i].height <= MaxSize

\* App.tsx:276-333
handlePointerMove(c) ==
    IF resizingNodeId # NULL
    THEN /\ nodes' = ResizedNodes(nodes, resizingNodeId, initialNodeSize,
                                  c.x - resizeStartPos.x, c.y - resizeStartPos.y)
         /\ InWindow(nodes')
         /\ lastEvent' = Ev("pointerMove", NULL, c, FALSE, "resize")
         /\ UNCHANGED <<now, connections, selVars, boxVars, connectionDraft,
                        dragVars, resizeVars>>
    ELSE IF draggingNodeId # NULL
    THEN /\ nodes' = DraggedNodes(nodes, dragStartNodes, c.x - dragStartMousePos.x,
                                  c.y - dragStartMousePos.y)
         /\ InWindow(nodes')
         /\ lastEvent' = Ev("pointerMove", NULL, c, FALSE, "drag")
         /\ UNCHANGED <<now, connections, selVars, boxVars, connectionDraft,
                        dragVars, resizeVars>>
    ELSE IF selectionBox # <<>>
    THEN /\ selectionBox' = <<[selectionBox[1] EXCEPT !.endX = c.x, !.endY = c.y]>>
         /\ selectedNodeIds' =
               Dedup(selectionBaseline \o IntersectingIds(nodes, selectionBox[1], c.x, c.y))
         /\ lastEvent' = Ev("pointerMove", NULL, c, FALSE, "marquee")
         /\ UNCHANGED <<now, graphVars, selectedConnectionId, selectionBaseline,
                        connectionDraft, dragVars, resizeVars>>
    ELSE /\ lastEvent' = Ev("pointerMove", NULL, c, FALSE, "none")
         /\ UNCHANGED progVars

\* App.tsx:373, prev.filter(n => !nodeIds.includes(n.id))
DeleteNodes(ns, nodeIds) == SelectSeq(ns, LAMBDA n : ~Includes(nodeIds, n.id))

\* a variant of DeleteIncident that looks at the start of a connection only;
\* C3_DeleteCascades tells the two apart
DeleteIncidentFromOnly(cs, nodeIds) ==
    SelectSeq(cs, LAMBDA cn : ~Includes(nodeIds, cn.from))

\* App.tsx:374, prev.filter(c => !nodeIds.includes(c.from) && !nodeIds.includes(c.to))
DeleteIncident(cs, nodeIds) ==
    SelectSeq(cs, LAMBDA cn : ~Includes(nodeIds, cn.from) /\ ~Includes(nodeIds, cn.to))

\* App.tsx:375, prev.filter(id => !nodeIds.includes(id))
Deselect(sel, nodeIds) == SelectSeq(sel, LAMBDA id : ~Includes(nodeIds, id))

\* a variant of DeleteConnection that compares nothing; C17_DeleteKey tells
\* the two apart
DeleteConnectionAll(cs, connId) == <<>>

\* App.tsx:383, prev.filter(c => c.id !== connId)
DeleteConnection(cs, connId) == SelectSeq(cs, LAMBDA cn : cn.id # connId)

\* App.tsx:378-380 with 372-376, reached from the Delete entry of the menu of
\* node nodeId (part_002:449)
handleNodeDelete(nodeId) ==
    /\ nodes' = DeleteNodes(nodes, <<nodeId>>)
    /\ connections' = DeleteIncident(connections, <<nodeId>>)
    /\ selectedNodeIds' = Deselect(selectedNodeIds, <<nodeId>>)
    /\ lastEvent' = Ev("nodeDelete", nodeId, NoCursor, FALSE,
                       IF DeleteIncident(connections, <<nodeId>>) # connections
                       THEN "cascade" ELSE "plain")
    /\ UNCHANGED <<now, selectedConnectionId, boxVars, connectionDraft, dragVars, resizeVars>>

\* App.tsx:617-620, the connections that are drawn
RenderedConnectionIds ==
    {connections[k].id : k \in {j \in 1..Len(connections) :
        FindNode(nodes, connections[j].from) # 0 /\ FindNode(nodes, connections[j].to) # 0}}

\* a variant of ConnectionLineSelect that keeps the node selection;
\* C7_SelectionExclusive tells the two apart
ConnectionLineSelectKeeping(connId) ==
    /\ draggingNodeId = NULL /\ resizingNodeId = NULL
    /\ connectionDraft = <<>> /\ selectionBox = <<>>
    /\ selectedConnectionId' = connId
    /\ lastEvent' = Ev("connectionSelect", connId, NoCursor, FALSE, "")
    /\ UNCHANGED <<now, graphVars, selectedNodeIds, boxVars, connectionDraft,
                   dragVars, resizeVars>>

\* App.tsx:627-630, a click on a drawn connection line.  The click follows the
\* pointer-up of the same press, which the canvas has handled (App.tsx:528).
ConnectionLineSelect(connId) ==
    /\ draggingNodeId = NULL /\ resizingNodeId = NULL
    /\ connectionDraft = <<>> /\ selectionBox = <<>>
    /\ selectedConnectionId' = connId
    /\ selectedNodeIds' = <<>>
    /\ lastEvent' = Ev("connectionSelect", connId, NoCursor, FALSE, "")
    /\ UNCHANGED <<now, graphVars, boxVars, connectionDraft, dragVars, resizeVars>>

\* App.tsx:496-502
KeyEscape ==
    /\ selectedNodeIds' = <<>>
    /\ selectedConnectionId' = NULL
    /\ connectionDraft' = <<>>
    /\ selectionBox' = <<>>
    /\ lastEvent' = Ev("escape", NULL, NoCursor, FALSE, "")
    /\ UNCHANGED <<now, graphVars, selectionBaseline, dragVars, resizeVars>>

\* part_002:300-306, Escape pressed in the title or description editor of node
\* nodeId: the editor stops the propagation, so the window handler
\* (App.tsx:495) does not run.  The editor is shown only while its node is
\* selected (part_002:254-258).
handleInputKeyDown(nodeId) ==
    /\ Includes(selectedNodeIds, nodeId)
    /\ lastEvent' = Ev("escape", nodeId, NoCursor, TRUE, "blocked")
    /\ UNCHANGED progVars

\* App.tsx:504-516 with 372-376 and 382-385; isInput is whether an INPUT or a
\* TEXTAREA has the focus
KeyDelete(isInput) ==
    IF isInput
    THEN /\ lastEvent' = Ev("delete", NULL, NoCursor, isInput, "none")
         /\ UNCHANGED progVars
    ELSE LET delNodes == Len(selectedNodeIds) > 0
             delConn == selectedConnectionId # NULL
             cs1 == IF delNodes THEN DeleteIncident(connections, selectedNodeIds)
                    ELSE connections
         IN /\ nodes' = IF delNodes THEN DeleteNodes(nodes, selectedNodeIds) ELSE nodes
            /\ selectedNodeIds' = IF delNodes THEN Deselect(selectedNodeIds, selectedNodeIds)
                                  ELSE selectedNodeIds
            /\ connections' = IF delConn THEN DeleteConnection(cs1, selectedConnectionId)
                              ELSE cs1
            /\ selectedConnectionId' = NULL
            /\ lastEvent' = Ev("delete", NULL, NoCursor, isInput,
                               IF delNodes THEN "nodes"
                               ELSE IF delConn THEN "connection" ELSE "none")
            /\ UNCHANGED <<now, boxVars, connectionDraft, dragVars, resizeVars>>

----------------------------------------------------------------------------
(* Every event in every order, on a canvas that starts empty.  The pointer *)
(* stays at one point, so drags and resizes have a zero displacement.      *)

Next ==
    \/ Tick(MaxClock) /\ UNCHANGED appVars
    \/ addNode /\ UNCHANGED appVars
    \/ \E c \in Clicks, m \in BOOLEAN : handlePointerDownCanvas(c, m) /\ UNCHANGED appVars
    \/ \E id \in NodeIds(nodes), c \in Clicks, m \in BOOLEAN : handlePointerDownNode(id, c, m) /\ UNCHANGED appVars
    \/ \E id \in NodeIds(nodes), c \in Clicks : handleResizeStart(id, c) /\ UNCHANGED appVars
    \/ \E id \in NodeIds(nodes), h \in Handles : handleConnectStart(id, h) /\ UNCHANGED appVars
    \/ \E c \in Clicks : handlePointerMove(c) /\ UNCHANGED appVars
    \/ handlePointerUp /\ UNCHANGED appVars
    \/ \E id \in NodeIds(nodes) : NodePointerUp(id) /\ UNCHANGED appVars
    \/ \E id \in NodeIds(nodes) : handleNodeDelete(id) /\ UNCHANGED appVars
    \/ \E id \in RenderedConnectionIds : ConnectionLineSelect(id) /\ UNCHANGED appVars
    \/ KeyEscape /\ UNCHANGED appVars
    \/ \E id \in NodeIds(nodes) : handleInputKeyDown(id) /\ UNCHANGED appVars
    \/ \E isInput \in BOOLEAN : KeyDelete(isInput) /\ UNCHANGED appVars

Spec == Init /\ [][Next]_vars

----------------------------------------------------------------------------
(* Editing the graph of a canvas with three nodes: selection by clicks,    *)
(* connection drafts, deletion by key and by menu                          *)

\* a canvas that loadCanvas (App.tsx:96-121) has opened: three nodes made by
\* addNode at the clock readings 1, 2 and 3, and one connection
InitGraph ==
    /\ now = 3
    /\ nodes = <<NewNode(1, AddX, AddY), NewNode(2, AddX, AddY), NewNode(3, AddX, AddY)>>
    /\ connections = <<[id |-> 3, from |-> 1, to |-> 2]>>
    /\ InitRefs
    /\ InitApp

NextGraph ==
    \/ Tick(MaxClock + 2) /\ UNCHANGED appVars
    \/ \E id \in NodeIds(nodes), c \in Clicks, m \in BOOLEAN : handlePointerDownNode(id, c, m) /\ UNCHANGED appVars
    \/ \E id \in NodeIds(nodes), h \in Handles : handleConnectStart(id, h) /\ UNCHANGED appVars
    \/ handlePointerUp /\ UNCHANGED appVars
    \/ \E id \in NodeIds(nodes) : NodePointerUp(id) /\ UNCHANGED appVars
    \/ \E id \in NodeIds(nodes) : handleNodeDelete(id) /\ UNCHANGED appVars
    \/ \E isInput \in BOOLEAN : KeyDelete(isInput) /\ UNCHANGED appVars

SpecGraph == InitGraph /\ [][NextGraph]_vars

----------------------------------------------------------------------------
(* Drags and resizes with a moving pointer, and their cancellation by     *)
(* Escape, on a canvas with two nodes                                      *)

\* a canvas that loadCanvas (App.tsx:96-121) has opened: two nodes made by
\* addNode at the clock readings 1 and 2, the second one dragged away, and
\* the connection between them
InitMove ==
    /\ now = 2
    /\ nodes = <<NewNode(1, AddX, AddY), NewNode(2, AddX + StepX, AddY + StepY)>>
    /\ connections = <<[id |-> 2, from |-> 1, to |-> 2]>>
    /\ InitRefs
    /\ InitApp

NextMove ==
    \/ \E id \in NodeIds(nodes), c \in Cursors, m \in BOOLEAN : handlePointerDownNode(id, c, m) /\ UNCHANGED appVars
    \/ \E id \in NodeIds(nodes), c \in Cursors : handleResizeStart(id, c) /\ UNCHANGED appVars
    \/ \E c \in Cursors : handlePointerMove(c) /\ UNCHANGED appVars
    \/ handlePointerUp /\ UNCHANGED appVars
    \/ KeyEscape /\ UNCHANGED appVars

SpecMove == InitMove /\ [][NextMove]_vars

----------------------------------------------------------------------------
(* The Delete key on a canvas with three nodes and two connections: nodes  *)
(* and connections are selected by clicks and deleted by key               *)

\* a canvas that loadCanvas (App.tsx:96-121) has opened: three nodes made by
\* addNode at the clock readings 1, 2 and 3, and two connections made at the
\* readings 3 and 4
InitKeys ==
    /\ now = 4
    /\ nodes = <<NewNode(1, AddX, AddY), NewNode(2, AddX, AddY), NewNode(3, AddX, AddY)>>
    /\ connections = <<[id |-> 3, from |-> 1, to |-> 2], [id |-> 4, from |-> 2, to |-> 3]>>
    /\ InitRefs
    /\ InitApp

NextKeys ==
    \/ \E id \in NodeIds(nodes), c \in Clicks, m \in BOOLEAN : handlePointerDownNode(id, c, m) /\ UNCHANGED appVars
    \/ handlePointerUp /\ UNCHANGED appVars
    \/ \E id \in RenderedConnectionIds : ConnectionLineSelect(id) /\ UNCHANGED appVars
    \/ \E isInput \in BOOLEAN : KeyDelete(isInput) /\ UNCHANGED appVars

SpecKeys == InitKeys /\ [][NextKeys]_vars

----------------------------------------------------------------------------
(* Marquee selection with a moving pointer, on a canvas with two nodes *)

\* the positions the pointer events of SpecMarquee carry: a point inside the
\* first node only, a point inside the second node only, and the top-left
\* corner of the first node
MarqueePoints == Cursors \cup {[x |-> AddX, y |-> AddY]}

NextMarquee ==
    \/ \E c \in MarqueePoints, m \in BOOLEAN : handlePointerDownCanvas(c, m) /\ UNCHANGED appVars
    \/ \E id \in NodeIds(nodes), c \in Clicks, m \in BOOLEAN : handlePointerDownNode(id, c, m) /\ UNCHANGED appVars
    \/ \E c \in MarqueePoints : handlePointerMove(c) /\ UNCHANGED appVars
    \/ handlePointerUp /\ UNCHANGED appVars

SpecMarquee == InitMove /\ [][NextMarquee]_vars

----------------------------------------------------------------------------
(* Documents: the auto-save effect, the canvases of the sidebar, import.   *)
(* A timer is pending or not; it can fire at any later moment, and an      *)
(* event that comes while it is pending comes within its delay.            *)

\* the timers of App.tsx:113-115 that can be pending together
MaxTimers == 2

\* a variant of Closure that keeps the id of the canvas opened first, as a
\* callback that is never renewed does; C35_NoMixedWrite tells the two apart
ClosureStaleId(id, name, ns, cs) == [id |-> 1, name |-> name, nodes |-> ns, connections |-> cs]

\* what saveCurrentCanvas (App.tsx:136-149) reads in the closure of a render
Closure(id, name, ns, cs) == [id |-> id, name |-> name, nodes |-> ns, connections |-> cs]

\* App.tsx:82-92, after the render that follows a handler: when nodes,
\* connections or currentCanvasName changed, the cleanup clears the pending
\* timer and the effect sets a new one, unless no canvas is open or skipSave
\* is set
AutoSaveEffect(changed) ==
    saveTimer' = IF ~changed THEN saveTimer
                 ELSE IF currentCanvasId' = NULL \/ skipSave' THEN <<>>
                 ELSE <<Closure(currentCanvasId', currentCanvasName', nodes', connections')>>

\* the rest of the state at an edit of the diagram
EditFrame ==
    /\ dirty' = TRUE
    /\ UNCHANGED <<storeVars, docVars, skipSave, skipTimers, aiVars, fileReads>>
    /\ AutoSaveEffect(TRUE)

\* App.tsx:548: the name input of the toolbar
setCurrentCanvasName(name) ==
    /\ currentCanvasId # NULL
    /\ name # currentCanvasName
    /\ currentCanvasName' = name
    /\ dirty' = TRUE
    /\ lastEvent' = Ev("rename", currentCanvasId, NoCursor, FALSE, "")
    /\ UNCHANGED <<progVars, storeVars, currentCanvasId, canvases, nextUuid, skipSave,
                   skipTimers, aiVars, fileReads>>
    /\ AutoSaveEffect(TRUE)

\* a variant of SkipSaveOnLoad: loadCanvas leaves skipSave alone;
\* C25_LoadNotWrittenBack tells the two apart
SkipSaveKept == skipSave

\* App.tsx:99: skipSave.current = true
SkipSaveOnLoad == TRUE

\* App.tsx:96-121 on the store ls: the document under the id, when there is
\* one, becomes the diagram
LoadCanvas(ls, id) ==
    LET found == storageService_loadCanvas(ls, id, "none").value
    IN IF found # <<>>
       THEN /\ skipSave' = SkipSaveOnLoad
            /\ currentCanvasId' = found[1].id
            /\ currentCanvasName' = found[1].name
            /\ nodes' = found[1].nodes
            /\ connections' = found[1].connections
            /\ canvases' = getCanvases(ls, "none").value
            /\ skipTimers' = skipTimers + 1
            /\ selectedNodeIds' = <<>>
            /\ selectedConnectionId' = NULL
            /\ dirty' = FALSE
            /\ AutoSaveEffect(TRUE)
       ELSE UNCHANGED <<skipSave, currentCanvasId, currentCanvasName, nodes, connections,
                        skipTimers, selVars, dirty, saveTimer>>

\* the state loadCanvas never touches
LoadFrame ==
    UNCHANGED <<now, boxVars, connectionDraft, dragVars, resizeVars, aiVars>>

\* App.tsx:96-121, called by the sidebar with the id of a listed canvas
loadCanvas(id) ==
    LET found == storageService_loadCanvas(localStorage, id, "none")
    IN /\ skipTimers < MaxTimers
       /\ LoadCanvas(localStorage, id)
       /\ IF found.value = <<>> THEN UNCHANGED canvases ELSE TRUE
       /\ storeEvent' = StoreEvent("loadCanvas", id, <<>>, "none", found.threw, found.value)
       /\ lastEvent' = Ev("loadCanvas", id, NoCursor, found.value # <<>>, "")
       /\ UNCHANGED <<localStorage, nextUuid, fileReads>>
       /\ LoadFrame

\* App.tsx:123-134
createNewCanvas ==
    LET newCanvas == createCanvas(nextUuid, NewCanvasName(Len(canvases) + 1), now)
        saved == saveCanvas(localStorage, newCanvas, now, "none")
    IN /\ nextUuid <= MaxCanvases
       /\ skipTimers < MaxTimers
       /\ localStorage' = saved.value
       /\ storeEvent' = StoreEvent("saveCanvas", newCanvas.id, <<newCanvas>>, "none",
                                   saved.threw, <<>>)
       /\ nextUuid' = nextUuid + 1
       /\ LoadCanvas(saved.value, newCanvas.id)
       /\ lastEvent' = Ev("createNewCanvas", newCanvas.id, NoCursor, FALSE, "")
       /\ UNCHANGED fileReads
       /\ LoadFrame

\* App.tsx:87-89 and 136-149: the timer of the auto-save effect fires and
\* saveCurrentCanvas stores what the closure of its render holds
saveCurrentCanvas ==
    /\ saveTimer # <<>>
    /\ LET canvas == [id |-> saveTimer[1].id, name |-> saveTimer[1].name,
                      nodes |-> saveTimer[1].nodes,
                      connections |-> saveTimer[1].connections, lastModified |-> now]
           saved == saveCanvas(localStorage, canvas, now, "none")
       IN /\ localStorage' = saved.value
          /\ storeEvent' = StoreEvent("saveCanvas", canvas.id, <<canvas>>, "none",
                                      saved.threw, <<>>)
          /\ canvases' = getCanvases(saved.value, "none").value
          /\ lastEvent' = Ev("autosave", canvas.id, NoCursor, dirty, "")
    /\ saveTimer' = <<>>
    /\ dirty' = FALSE
    /\ UNCHANGED <<progVars, currentCanvasId, currentCanvasName, nextUuid, skipSave,
                   skipTimers, aiVars, fileReads>>

\* App.tsx:113-115: a timer of loadCanvas fires
SkipTimerFires ==
    /\ skipTimers > 0
    /\ skipTimers' = skipTimers - 1
    /\ skipSave' = FALSE
    /\ lastEvent' = Ev("skipTimer", NULL, NoCursor, FALSE, "")
    /\ UNCHANGED <<progVars, storeVars, docVars, saveTimer, dirty, aiVars, fileReads>>

\* the canvas names a user types
TypedNames == {"Plan"}

\* a value of a field of an imported file that is no array (a number, a
\* string, an object): React cannot render it
NotAnArray == <<[id |-> NULL, notArray |-> TRUE]>>

IsArray(value) == value # NotAnArray

\* the files a user imports: a text JSON.parse rejects, or an object with
\* or without a name, whose nodes and connections are absent (<<>>) or
\* present (<<value>>)
ImportFile(json, name, ns, cs) ==
    [json |-> json, name |-> name, nodes |-> ns, connections |-> cs]

ImportFiles ==
    {ImportFile(FALSE, <<>>, <<>>, <<>>),
     ImportFile(TRUE, <<"Plan">>, <<<<NewNode(1, AddX, AddY)>>>>, <<<<>>>>),
     ImportFile(TRUE, <<>>, <<<<>>>>, <<<<>>>>),
     ImportFile(TRUE, <<"Plan">>, <<>>, <<<<>>>>),
     ImportFile(TRUE, <<"Plan">>, <<<<NewNode(1, AddX, AddY)>>>>, <<>>),
     ImportFile(TRUE, <<"Plan">>, <<NotAnArray>>, <<<<>>>>)}

\* template literal `${parsed.name} (Imported)` (App.tsx:450)
ImportedName(name) == IF name = <<>> THEN "Imported Canvas" ELSE name[1] \o " (Imported)"

\* a variant of randomUUID that returns the id of the open canvas;
\* C30_ImportCreatesDocument tells the two apart
randomUUIDReused == currentCanvasId

\* crypto.randomUUID() (App.tsx:447): an id that was never returned before
randomUUID == nextUuid

\* App.tsx:432-436 and 462-465: a file is chosen and its read starts
handleImportCanvas(file) ==
    /\ fileReads = <<>>
    /\ fileReads' = <<file>>
    /\ lastEvent' = Ev("import", NULL, NoCursor, FALSE, "")
    /\ UNCHANGED <<progVars, storeVars, docVars, saveVars, aiVars>>

\* App.tsx:437-461: reader.onload
FileReaderOnload ==
    /\ fileReads # <<>>
    /\ fileReads' = <<>>
    /\ LET parsed == fileReads[1]
           newCanvasId == randomUUID
       IN IF ~parsed.json
          THEN /\ lastEvent' = Ev("importLoaded", NULL, NoCursor, FALSE, "Failed to parse the file.")
               /\ UNCHANGED <<progVars, storeVars, docVars, saveVars, aiVars>>
          ELSE IF parsed.nodes = <<>> \/ parsed.connections = <<>>
          THEN /\ lastEvent' = Ev("importLoaded", NULL, NoCursor, FALSE,
                                  "Invalid canvas file format.")
               /\ UNCHANGED <<progVars, storeVars, docVars, saveVars, aiVars>>
          ELSE LET importedCanvas == [id |-> newCanvasId, name |-> ImportedName(parsed.name),
                                      nodes |-> parsed.nodes[1],
                                      connections |-> parsed.connections[1],
                                      lastModified |-> now]
                   saved == saveCanvas(localStorage, importedCanvas, now, "none")
               IN /\ nextUuid <= MaxCanvases
                  /\ skipTimers < MaxTimers
                  /\ localStorage' = saved.value
                  /\ storeEvent' = StoreEvent("saveCanvas", newCanvasId, <<importedCanvas>>,
                                              "none", saved.threw, <<>>)
                  /\ nextUuid' = nextUuid + 1
                  /\ LoadCanvas(saved.value, newCanvasId)
                  /\ lastEvent' = Ev("importLoaded", newCanvasId, NoCursor, TRUE, "")
                  /\ LoadFrame

\* the nodes of a diagram and the canvases created in SpecDocs
MaxDocNodes == 1
MaxCreated == 2

NextDocs ==
    \/ Tick(MaxClock) /\ UNCHANGED appVars
    \/ Len(nodes) < MaxDocNodes /\ addNode /\ EditFrame
    \/ \E id \in NodeIds(nodes) : handleNodeDelete(id) /\ EditFrame
    \/ \E name \in TypedNames : setCurrentCanvasName(name)
    \/ \E i \in 1..Len(canvases) : loadCanvas(canvases[i].id)
    \/ nextUuid <= MaxCreated /\ createNewCanvas
    \/ saveCurrentCanvas
    \/ SkipTimerFires

SpecDocs == Init /\ [][NextDocs]_vars

\* React has rendered the diagram: nodes.map and connections.map (App.tsx:617,
\* 663) throw on a value that is no array, and the component is unmounted
Rendered == IsArray(nodes) /\ IsArray(connections)

NextImport ==
    \/ Rendered /\ Tick(MaxClock) /\ UNCHANGED appVars
    \/ Rendered /\ Len(nodes) < MaxDocNodes /\ addNode /\ EditFrame
    \/ Rendered /\ \E i \in 1..Len(canvases) : loadCanvas(canvases[i].id)
    \/ Rendered /\ \E file \in ImportFiles : handleImportCanvas(file)
    \/ Rendered /\ FileReaderOnload
    \/ Rendered /\ saveCurrentCanvas
    \/ SkipTimerFires

SpecImport == Init /\ [][NextImport]_vars

----------------------------------------------------------------------------
(* Export of the open canvas and import of the exported file, on diagrams  *)
(* with nodes and connections made by the pointer                          *)

\* a variant of handleExportCanvas that writes the nodes only;
\* C31_ExportImportRoundTrip tells the two apart
handleExportCanvasNodesOnly ==
    ImportFile(TRUE, <<currentCanvasName>>, <<nodes>>, <<>>)

\* App.tsx:411-430: the file handleExportCanvas offers for download, with
\* the name, the nodes and the connections of the last render
handleExportCanvas ==
    ImportFile(TRUE, IF currentCanvasName = "" THEN <<>> ELSE <<currentCanvasName>>,
               <<nodes>>, <<connections>>)

\* the rest of the state after a handler that may have set nodes or
\* connections: the auto-save effect runs when one of them changed
RenderFrame ==
    LET changed == <<nodes, connections>>' # <<nodes, connections>>
    IN /\ dirty' = (dirty \/ changed)
       /\ UNCHANGED <<storeVars, docVars, skipSave, skipTimers, aiVars, fileReads>>
       /\ AutoSaveEffect(changed)

\* the canvases imported in SpecRoundTrip
MaxImported == 2

NextRoundTrip ==
    \/ Tick(MaxClock) /\ UNCHANGED appVars
    \/ addNode /\ EditFrame
    \/ \E id \in NodeIds(nodes), h \in Handles : handleConnectStart(id, h) /\ RenderFrame
    \/ \E id \in NodeIds(nodes) : NodePointerUp(id) /\ RenderFrame
    \/ \E id \in NodeIds(nodes) : handleNodeDelete(id) /\ EditFrame
    \/ currentCanvasId # NULL /\ nextUuid <= MaxImported
          /\ handleImportCanvas(handleExportCanvas)
    \/ FileReaderOnload
    \/ SkipTimerFires

SpecRoundTrip == Init /\ [][NextRoundTrip]_vars

----------------------------------------------------------------------------
(* Generation of a diagram from a prompt: the dialog, the request to the   *)
(* external model, and its completion at any later moment                  *)

\* the requests that can be outstanding in the model
MaxRequests == 2

\* what the user types into the dialog (App.tsx:695)
PromptTexts == {"", " ", "plan a trip"}

\* aiPromptText.trim() (App.tsx:388, 712)
Trim(text) == IF text = " " THEN "" ELSE text

\* aiPromptText.split(' ').slice(0, 4).join(' ') + '...' (App.tsx:398)
SuggestedName(text) == IF text = "plan a trip" THEN "plan a trip..." ELSE "..."

\* App.tsx:397
IsDefaultName(name) ==
    \/ name \in {NewCanvasName(k) : k \in 1..(MaxCanvases + 1)}
    \/ name = "Untitled Canvas"

\* a node and a connection as the external model returns them
\* (part_003:115-140): without a size and without a connection id
RawNode(id, x, y) ==
    [id |-> id, x |-> x, y |-> y, title |-> "Step", description |-> "",
     status |-> "todo", type |-> "task"]

\* the answers of the external model: no answer (network or vendor failure),
\* an empty text, a text that is no JSON, or JSON data whose nodes and
\* connections are absent (<<>>) or present (<<array>>)
Response(kind, ns, cs) == [kind |-> kind, nodes |-> ns, connections |-> cs]

Responses ==
    {Response("failure", <<>>, <<>>),
     Response("empty", <<>>, <<>>),
     Response("garbled", <<>>, <<>>),
     Response("json", <<>>, <<<<>>>>),
     Response("json", <<<<RawNode(1, 0, 0)>>>>, <<>>),
     Response("json", <<<<>>>>, <<<<>>>>),
     Response("json", <<<<RawNode(1, 0, 0), RawNode(2, AddX, AddY)>>>>,
              <<<<[from |-> 1, to |-> 2]>>>>)}

\* what an answer is: a failure of one kind, or a diagram
ResponseKind(response) ==
    IF response.kind # "json" THEN response.kind
    ELSE IF response.nodes = <<>> THEN "no nodes"
    ELSE IF response.connections = <<>> THEN "no connections"
    ELSE "diagram"

\* part_003:153-159
MapNodes(ns) ==
    [i \in 1..Len(ns) |->
        [id |-> ns[i].id, x |-> ns[i].x, y |-> ns[i].y, width |-> DefaultWidth,
         height |-> DefaultHeight, title |-> ns[i].title,
         description |-> ns[i].description, status |-> ns[i].status, type |-> ns[i].type]]

\* part_003:161-165; the random id of a connection is its position
MapConnections(cs) ==
    [i \in 1..Len(cs) |-> [id |-> i, from |-> cs[i].from, to |-> cs[i].to]]

\* a variant of generateWorkflow that answers with what it could read;
\* C26_FailedGeneration tells the two apart
generateWorkflowLenient(response) ==
    Return([nodes |-> IF response.nodes = <<>> THEN <<>> ELSE MapNodes(response.nodes[1]),
            connections |-> IF response.connections = <<>> THEN <<>>
                            ELSE MapConnections(response.connections[1])])

\* part_003:96-173: the promise resolves with a diagram or rejects
generateWorkflow(response) ==
    IF response.kind # "json" THEN Throw
    ELSE IF response.nodes = <<>> \/ response.connections = <<>> THEN Throw
    ELSE Return([nodes |-> MapNodes(response.nodes[1]),
                 connections |-> MapConnections(response.connections[1])])

\* App.tsx:595: the toolbar button, which the open dialog covers
OpenPrompt ==
    /\ ~showAIPrompt
    /\ showAIPrompt' = TRUE
    /\ lastEvent' = Ev("openPrompt", NULL, NoCursor, FALSE, "")
    /\ UNCHANGED <<progVars, storeVars, docVars, saveVars, isAIGenerating, aiPromptText,
                   requests, fileReads>>

\* App.tsx:705: Cancel
CancelPrompt ==
    /\ showAIPrompt
    /\ showAIPrompt' = FALSE
    /\ lastEvent' = Ev("cancelPrompt", NULL, NoCursor, FALSE, "")
    /\ UNCHANGED <<progVars, storeVars, docVars, saveVars, isAIGenerating, aiPromptText,
                   requests, fileReads>>

\* App.tsx:695
setAiPromptText(text) ==
    /\ showAIPrompt
    /\ text # aiPromptText
    /\ aiPromptText' = text
    /\ lastEvent' = Ev("prompt", NULL, NoCursor, FALSE, "")
    /\ UNCHANGED <<progVars, storeVars, docVars, saveVars, isAIGenerating, showAIPrompt,
                   requests, fileReads>>

\* a variant of GenerateDisabled that looks at the prompt only;
\* C28_OneRequest tells the two apart
GenerateDisabledByPrompt == Trim(aiPromptText) = ""

\* App.tsx:712: disabled={isAIGenerating || !aiPromptText.trim()}
GenerateDisabled == isAIGenerating \/ Trim(aiPromptText) = ""

\* App.tsx:387-391, up to the await: the click on Generate
handleAIGenerate ==
    /\ showAIPrompt
    /\ ~GenerateDisabled
    /\ Trim(aiPromptText) # ""
    /\ Len(requests) < MaxRequests
    /\ isAIGenerating' = TRUE
    /\ requests' = Append(requests, [prompt |-> aiPromptText, name |-> currentCanvasName,
                                      canvas |-> currentCanvasId])
    /\ lastEvent' = Ev("generate", NULL, NoCursor, FALSE, "")
    /\ UNCHANGED <<progVars, storeVars, docVars, saveVars, showAIPrompt, aiPromptText,
                   fileReads>>

\* a variant of GeneratedConnections that keeps the connections of the diagram;
\* C27_GenerationReplaces tells the two apart
GeneratedConnectionsMerged(cs, newConnections) == cs \o newConnections

\* App.tsx:394: setConnections(newConnections)
GeneratedConnections(cs, newConnections) == newConnections

\* App.tsx:391-408, from the await on: the request settles with an answer.
\* The history flag tells whether the diagram was set (TRUE) or the alert of
\* the catch block was shown (FALSE)
GenerateSettles(response) ==
    /\ requests # <<>>
    /\ requests' = Tail(requests)
    /\ isAIGenerating' = FALSE
    /\ LET settled == generateWorkflow(response)
           closure == requests[1]
       IN IF settled.threw
          THEN /\ lastEvent' = Ev("generated", NULL, NoCursor, FALSE, ResponseKind(response))
               /\ UNCHANGED <<progVars, storeVars, docVars, saveVars, showAIPrompt,
                              aiPromptText, fileReads>>
          ELSE /\ nodes' = settled.value.nodes
               /\ connections' = GeneratedConnections(connections, settled.value.connections)
               /\ currentCanvasName' = IF IsDefaultName(closure.name)
                                       THEN SuggestedName(closure.prompt)
                                       ELSE currentCanvasName
               /\ showAIPrompt' = FALSE
               /\ aiPromptText' = ""
               /\ dirty' = TRUE
               /\ lastEvent' = Ev("generated", NULL, NoCursor, TRUE, ResponseKind(response))
               /\ UNCHANGED <<now, selVars, boxVars, connectionDraft, dragVars, resizeVars,
                              storeVars, currentCanvasId, canvases, nextUuid, skipSave,
                              skipTimers, fileReads>>
               /\ AutoSaveEffect(TRUE)

NextAI ==
    \/ Len(nodes) < MaxDocNodes /\ addNode /\ EditFrame
    \/ OpenPrompt
    \/ CancelPrompt
    \/ \E text \in PromptTexts : setAiPromptText(text)
    \/ handleAIGenerate
    \/ \E response \in Responses : GenerateSettles(response)
    \/ \E i \in 1..Len(canvases) : loadCanvas(canvases[i].id)
    \/ nextUuid <= MaxCreated /\ createNewCanvas
    \/ saveCurrentCanvas
    \/ SkipTimerFires

SpecAI == Init /\ [][NextAI]_vars

----------------------------------------------------------------------------
(* storageService on its own: every call with every argument, clock        *)
(* reading and failure of the store, from an empty store                   *)

\* the ids, names and clock readings of the documents SpecStore saves
MaxSaved == 2
MaxStamp == 2
StoreContents == {[name |-> "Draft", nodes |-> <<>>],
                   [name |-> "Plan", nodes |-> <<NewNode(1, AddX, AddY)>>]}
StoreDocuments ==
    {[id |-> id, name |-> c.name, nodes |-> c.nodes, connections |-> <<>>,
      lastModified |-> clock] : id \in 1..MaxSaved, c \in StoreContents, clock \in 1..MaxStamp}

\* the editor has no canvas open and stays as it is
InitStore ==
    /\ now = 1
    /\ nodes = <<>>
    /\ connections = <<>>
    /\ InitRefs
    /\ localStorage = EmptyStorage
    /\ currentCanvasId = NULL
    /\ currentCanvasName = ""
    /\ canvases = <<>>
    /\ nextUuid = 1
    /\ skipSave = FALSE
    /\ skipTimers = 0
    /\ InitIdle

StoreFrame == UNCHANGED <<progVars, lastEvent, docVars, saveVars, aiVars, fileReads>>

\* a call of storageService.getCanvases (part_003:8-17)
CallGetCanvases(fault) ==
    LET r == getCanvases(localStorage, fault)
    IN /\ storeEvent' = StoreEvent("getCanvases", NULL, <<>>, fault, r.threw, r.value)
       /\ UNCHANGED localStorage
       /\ StoreFrame

\* a call of storageService.loadCanvas (part_003:20-29)
CallLoadCanvas(id, fault) ==
    LET r == storageService_loadCanvas(localStorage, id, fault)
    IN /\ storeEvent' = StoreEvent("loadCanvas", id, <<>>, fault, r.threw, r.value)
       /\ UNCHANGED localStorage
       /\ StoreFrame

\* a call of storageService.saveCanvas (part_003:32-61) at a clock reading
CallSaveCanvas(canvas, clock, fault) ==
    LET r == saveCanvas(localStorage, canvas, clock, fault)
    IN /\ localStorage' = r.value
       /\ storeEvent' = StoreEvent("saveCanvas", canvas.id, <<canvas>>, fault, r.threw, <<>>)
       /\ StoreFrame

\* a call of storageService.deleteCanvas (part_003:64-76)
CallDeleteCanvas(id, fault) ==
    LET r == storageService_deleteCanvas(localStorage, id, fault)
    IN /\ localStorage' = r.value
       /\ storeEvent' = StoreEvent("deleteCanvas", id, <<>>, fault, r.threw, <<>>)
       /\ StoreFrame

\* the text under the index key is damaged outside the program
CorruptIndex ==
    /\ localStorage.index.text = "json"
    /\ localStorage' = [localStorage EXCEPT !.index = Garbled]
    /\ storeEvent' = [StoreEvent("corrupt", NULL, <<>>, "none", FALSE, <<>>)
                        EXCEPT !.failed = TRUE]
    /\ StoreFrame

\* the text under a document's key is damaged outside the program
CorruptCanvas(id) ==
    /\ localStorage.canvas[id].text = "json"
    /\ localStorage' = [localStorage EXCEPT !.canvas[id] = Garbled]
    /\ storeEvent' = [StoreEvent("corrupt", id, <<>>, "none", FALSE, <<>>)
                        EXCEPT !.failed = TRUE]
    /\ StoreFrame

NextStore ==
    \/ \E fault \in {"none", "getItem"} : CallGetCanvases(fault)
    \/ \E id \in 1..MaxSaved, fault \in {"none", "getItem"} : CallLoadCanvas(id, fault)
    \/ \E canvas \in StoreDocuments, fault \in {"none", "getItem", "setItem", "setIndex"} :
          CallSaveCanvas(canvas, canvas.lastModified, fault)
    \/ \E id \in 1..MaxSaved, fault \in {"none", "getItem", "removeItem", "setIndex"} :
          CallDeleteCanvas(id, fault)
    \/ CorruptIndex
    \/ \E id \in 1..MaxSaved : CorruptCanvas(id)

SpecStore == InitStore /\ [][NextStore]_vars

----------------------------------------------------------------------------
(* The canvases of the sidebar: create, select, import, delete, and the    *)
(* start of the app on the store a session has left                         *)

\* a variant of DeletedIsOpen for which no canvas is the open one;
\* C37_OpenStoredDocument tells the two apart
DeletedIsOpenNever(id) == FALSE

\* App.tsx:157
DeletedIsOpen(id) == id = currentCanvasId

\* App.tsx:151-164, called by the sidebar with the id of a listed canvas.
\* The history flag tells whether the open canvas was deleted, the branch
\* what was opened for it
deleteCanvas(id) ==
    LET deleted == storageService_deleteCanvas(localStorage, id, "none")
        updatedList == getCanvases(deleted.value, "none").value
        newCanvas == createCanvas(nextUuid, NewCanvasName(Len(canvases) + 1), now)
        saved == saveCanvas(deleted.value, newCanvas, now, "none")
    IN /\ IF ~DeletedIsOpen(id)
          THEN /\ localStorage' = deleted.value
               /\ storeEvent' = StoreEvent("deleteCanvas", id, <<>>, "none", deleted.threw, <<>>)
               /\ canvases' = updatedList
               /\ lastEvent' = Ev("deleteCanvas", id, NoCursor, FALSE, "other")
               /\ UNCHANGED <<nodes, connections, selVars, currentCanvasId, currentCanvasName,
                              nextUuid, saveVars>>
          ELSE IF updatedList # <<>>
          THEN /\ skipTimers < MaxTimers
               /\ localStorage' = deleted.value
               /\ storeEvent' = StoreEvent("deleteCanvas", id, <<>>, "none", deleted.threw, <<>>)
               /\ LoadCanvas(deleted.value, updatedList[1].id)
               /\ lastEvent' = Ev("deleteCanvas", id, NoCursor, TRUE, "load")
               /\ UNCHANGED nextUuid
          ELSE /\ skipTimers < MaxTimers
               /\ nextUuid <= MaxCanvases
               /\ localStorage' = saved.value
               /\ storeEvent' = StoreEvent("saveCanvas", newCanvas.id, <<newCanvas>>, "none",
                                           saved.threw, <<>>)
               /\ nextUuid' = nextUuid + 1
               /\ LoadCanvas(saved.value, newCanvas.id)
               /\ lastEvent' = Ev("deleteCanvas", id, NoCursor, TRUE, "create")
       /\ UNCHANGED fileReads
       /\ LoadFrame

\* App.tsx:65-75 on a store that holds canvases: the page is loaded again,
\* what was pending is gone with the old page, and the mount effect opens
\* the first canvas of the index.  (On the empty store it creates one: InitApp.)
Mount ==
    LET list == getCanvases(localStorage, "none").value
    IN /\ skipTimers = 0
       /\ list # <<>>
       /\ LoadCanvas(localStorage, list[1].id)
       /\ storeEvent' = StoreEvent("loadCanvas", list[1].id, <<>>, "none", FALSE,
                                   storageService_loadCanvas(localStorage, list[1].id, "none").value)
       /\ selectionBox' = <<>>
       /\ selectionBaseline' = <<>>
       /\ connectionDraft' = <<>>
       /\ draggingNodeId' = NULL
       /\ dragStartMousePos' = [x |-> 0, y |-> 0]
       /\ dragStartNodes' = <<>>
       /\ resizingNodeId' = NULL
       /\ resizeStartPos' = [x |-> 0, y |-> 0]
       /\ initialNodeSize' = [width |-> 0, height |-> 0]
       /\ isAIGenerating' = FALSE
       /\ showAIPrompt' = FALSE
       /\ aiPromptText' = ""
       /\ requests' = <<>>
       /\ fileReads' = <<>>
       /\ lastEvent' = Ev("mount", list[1].id, NoCursor, FALSE, "")
       /\ UNCHANGED <<now, localStorage, nextUuid>>

NextCanvases ==
    \/ Tick(MaxClock) /\ UNCHANGED appVars
    \/ Len(nodes) < MaxDocNodes /\ addNode /\ EditFrame
    \/ \E i \in 1..Len(canvases) : loadCanvas(canvases[i].id)
    \/ nextUuid <= MaxCreated /\ createNewCanvas
    \/ currentCanvasId # NULL /\ nextUuid <= MaxCreated
          /\ handleImportCanvas(handleExportCanvas)
    \/ FileReaderOnload
    \/ \E i \in 1..Len(canvases) : deleteCanvas(canvases[i].id)
    \/ Mount
    \/ saveCurrentCanvas
    \/ SkipTimerFires

SpecCanvases == Init /\ [][NextCanvases]_vars

\* the timers of SpecCanvases fire: the browser runs a timer that is due
\* (App.tsx:87-89, 113-115)
SpecCanvasesFair ==
    SpecCanvases /\ WF_vars(saveCurrentCanvas) /\ WF_vars(SkipTimerFires)

----------------------------------------------------------------------------
(* Edits of single nodes and connections by id, with ids that are and are  *)
(* not on the canvas, on the canvas of two nodes                           *)

\* part_002:262
Statuses == <<"todo", "in-progress", "done">>

\* Array.prototype.indexOf, counted from 0; -1 when absent
IndexOf(s, e) ==
    IF Includes(s, e) THEN (CHOOSE i \in 1..Len(s) : s[i] = e /\ \A j \in 1..(i - 1) : s[j] # e) - 1
    ELSE -1

\* a variant of NextStatus that goes back from the second status;
\* C39_StatusCycle tells the two apart
NextStatusBack(status) == Statuses[((IndexOf(Statuses, status) + 1) % 2) + 1]

\* part_002:263-264
NextStatus(status) == Statuses[((IndexOf(Statuses, status) + 1) % Len(Statuses)) + 1]

\* App.tsx:368-370
handleStatusChange(nodeId, newStatus) ==
    nodes' = [i \in 1..Len(nodes) |->
                 IF nodes[i].id = nodeId THEN [nodes[i] EXCEPT !.status = newStatus]
                 ELSE nodes[i]]

\* part_002:260-265, a click on the status button of the rendered node nodeId;
\* the click does not reach the canvas (stopPropagation)
handleStatusToggle(nodeId) ==
    LET node == nodes[FindNode(nodes, nodeId)]
    IN /\ handleStatusChange(nodeId, NextStatus(node.status))
       /\ lastEvent' = Ev("statusToggle", nodeId, NoCursor, FALSE, node.status)
       /\ UNCHANGED <<now, connections, selVars, boxVars, connectionDraft, dragVars, resizeVars>>

\* App.tsx:364-366
handleNodeUpdate(updatedNode) ==
    /\ nodes' = [i \in 1..Len(nodes) |->
                    IF nodes[i].id = updatedNode.id THEN updatedNode ELSE nodes[i]]
    /\ lastEvent' = Ev("nodeUpdate", updatedNode.id, NoCursor, FALSE, "")
    /\ UNCHANGED <<now, connections, selVars, boxVars, connectionDraft, dragVars, resizeVars>>

\* App.tsx:382-385
handleConnectionDelete(connId) ==
    /\ connections' = DeleteConnection(connections, connId)
    /\ selectedConnectionId' = IF selectedConnectionId = connId THEN NULL
                               ELSE selectedConnectionId
    /\ lastEvent' = Ev("connectionDelete", connId, NoCursor, FALSE, "")
    /\ UNCHANGED <<now, nodes, selectedNodeIds, boxVars, connectionDraft, dragVars, resizeVars>>

\* the ids the handlers of SpecEdit are called with
MaxAnyId == 3

\* part_002:358, the node with id as the title editor submits it; for an id
\* that is not on the canvas, a node of that id
EditedNode(id) ==
    [(IF FindNode(nodes, id) # 0 THEN nodes[FindNode(nodes, id)] ELSE NewNode(id, AddX, AddY))
        EXCEPT !.title = "Edited"]

NextEdit ==
    \/ \E id \in NodeIds(nodes) : handleStatusToggle(id) /\ UNCHANGED appVars
    \/ \E id \in 1..MaxAnyId : handleNodeUpdate(EditedNode(id)) /\ UNCHANGED appVars
    \/ \E id \in 1..MaxAnyId : handleNodeDelete(id) /\ UNCHANGED appVars
    \/ \E id \in 1..MaxAnyId : handleConnectionDelete(id) /\ UNCHANGED appVars
    \/ \E id \in NodeIds(nodes), h \in Handles : handleConnectStart(id, h) /\ UNCHANGED appVars
    \/ \E id \in NodeIds(nodes) : NodePointerUp(id) /\ UNCHANGED appVars
    \/ \E id \in CanvasIds : /\ localStorage.canvas[id].text = "none"
                             /\ CallDeleteCanvas(id, "none")

SpecEdit == InitMove /\ [][NextEdit]_vars

----------------------------------------------------------------------------
(* Properties *)

\* the number of positions of s that hold e
Count(s, e) == Cardinality({i \in 1..Len(s) : s[i] = e})

Range(s) == {s[i] : i \in 1..Len(s)}

HasEdge(cs, from, to) == \E k \in 1..Len(cs) : cs[k].from = from /\ cs[k].to = to

ActiveModes ==
    (IF draggingNodeId # NULL THEN 1 ELSE 0) + (IF resizingNodeId # NULL THEN 1 ELSE 0)
    + (IF connectionDraft # <<>> THEN 1 ELSE 0) + (IF selectionBox # <<>> THEN 1 ELSE 0)

\* C1: referential integrity.  In every state reached by the editing events,
\* the from and the to of every connection are ids of nodes in the node list.
C1_ReferentialIntegrity ==
    \A k \in 1..Len(connections) :
        connections[k].from \in NodeIds(nodes) /\ connections[k].to \in NodeIds(nodes)

\* C2: mutual exclusion of the interaction modes.  In every reachable state at
\* most one of the node drag, the resize, the connection draft and the marquee
\* is active, so no pointer-down has started a second one.
C2_MutualExclusion == ActiveModes <= 1

\* the node ids a step deletes: the one of the menu entry, or the selection
\* that Delete/Backspace finds
DeletedIds ==
    IF lastEvent'.name = "nodeDelete" THEN {lastEvent'.id} ELSE Range(selectedNodeIds)

IsNodeDeletion ==
    \/ lastEvent'.name = "nodeDelete"
    \/ lastEvent'.name = "delete" /\ ~lastEvent'.flag /\ Len(selectedNodeIds) > 0

\* C3: node deletion cascades.  A deletion of a set of nodes, by Delete or
\* Backspace or by a node's menu, removes exactly the nodes with these ids,
\* removes every connection that starts or ends at one of them and keeps every
\* other connection, and removes these ids from the node selection.
C3_DeleteCascades ==
    [][IsNodeDeletion =>
        /\ \A n \in Range(nodes) \cup Range(nodes') :
              Count(nodes', n) = IF n.id \in DeletedIds THEN 0 ELSE Count(nodes, n)
        /\ \A cn \in Range(connections) \cup Range(connections') :
              Count(connections', cn) =
                 IF cn.from \in DeletedIds \/ cn.to \in DeletedIds
                 THEN 0 ELSE Count(connections, cn)
        /\ \A id \in Range(selectedNodeIds) \cup Range(selectedNodeIds') :
              Count(selectedNodeIds', id) =
                 IF id \in DeletedIds THEN 0 ELSE Count(selectedNodeIds, id)]_vars

\* a menu deletion has removed a connection of the deleted node, and a
\* connection between two other nodes is still there
C3_Witness ==
    /\ lastEvent.name = "nodeDelete" /\ lastEvent.branch = "cascade"
    /\ Len(nodes) = 2
    /\ \E k \in 1..Len(connections) :
          connections[k].from # lastEvent.id /\ connections[k].to # lastEvent.id

NoSelfLoop == \A k \in 1..Len(connections) : connections[k].from # connections[k].to

NoDuplicatePair ==
    \A j, k \in 1..Len(connections) :
        (connections[j].from = connections[k].from /\ connections[j].to = connections[k].to)
            => j = k

\* C4: connection creation is irreflexive and deduplicated.  From a canvas with
\* no self-loop and no duplicate (from, to) pair, no sequence of drafts makes a
\* connection from a node to itself or a second connection with a pair that is
\* present, and a release whose connection is already there adds nothing.
C4_IrreflexiveDeduplicated ==
    /\ [](NoSelfLoop /\ NoDuplicatePair)
    /\ [][(/\ lastEvent'.name = "nodePointerUp"
           /\ connectionDraft # <<>>
           /\ \/ HasEdge(connections, connectionDraft[1].startNodeId, lastEvent'.id)
                 /\ connectionDraft[1].startHandle = "source"
              \/ HasEdge(connections, lastEvent'.id, connectionDraft[1].startNodeId)
                 /\ connectionDraft[1].startHandle = "target")
          => connections' = connections]_vars

\* a draft has been released over a node to which its connection exists
C4_Witness ==
    /\ lastEvent.name = "nodePointerUp" /\ lastEvent.branch = "exists"
    /\ lastEvent.draft # <<>>
    /\ Len(connections) >= 1

\* C5: direction normalization.  A draft from the source handle of O released
\* over another node T makes the connection O -> T, a draft from the target
\* handle of O released over T makes T -> O, and only a connection with that
\* same direction prevents it.
C5_DirectionNormalized ==
    [][(/\ lastEvent'.name = "nodePointerUp"
        /\ connectionDraft # <<>>
        /\ connectionDraft[1].startNodeId # lastEvent'.id)
       => LET O == connectionDraft[1].startNodeId
              T == lastEvent'.id
              isSource == connectionDraft[1].startHandle = "source"
              from == IF isSource THEN O ELSE T
              to == IF isSource THEN T ELSE O
          IN IF HasEdge(connections, from, to)
             THEN connections' = connections
             ELSE /\ Len(connections') = Len(connections) + 1
                  /\ SubSeq(connections', 1, Len(connections)) = connections
                  /\ connections'[Len(connections')].from = from
                  /\ connections'[Len(connections')].to = to]_vars

\* a draft from a target handle has made the connection of the opposite
\* direction of one that exists
C5_Witness ==
    /\ lastEvent.name = "nodePointerUp" /\ lastEvent.branch = "added"
    /\ lastEvent.draft # <<>>
    /\ lastEvent.draft[1].startHandle = "target"
    /\ HasEdge(connections, lastEvent.id, lastEvent.draft[1].startNodeId)
    /\ HasEdge(connections, lastEvent.draft[1].startNodeId, lastEvent.id)

\* C6: a connection draft released over the empty canvas (pointer-up or
\* pointer-leave of the canvas) is discarded, and the nodes, the connections
\* and the selection stay as they are.
C6_ReleaseOverCanvas ==
    [][(lastEvent'.name = "pointerUp" /\ connectionDraft # <<>>)
       => /\ connectionDraft' = <<>>
          /\ nodes' = nodes
          /\ connections' = connections
          /\ selectedNodeIds' = selectedNodeIds
          /\ selectedConnectionId' = selectedConnectionId]_vars

\* a draft has been released over the canvas while a node was selected
C6_Witness ==
    /\ lastEvent.name = "pointerUp" /\ lastEvent.draft # <<>>
    /\ connectionDraft = <<>>
    /\ Len(selectedNodeIds) > 0
    /\ Len(nodes) = 2

\* C7: the selection categories are mutually exclusive.  In no reachable state
\* is the node selection non-empty while a connection is selected; selecting a
\* connection empties the node selection, and a pointer-down that selects a
\* node clears the selected connection.
C7_SelectionExclusive ==
    /\ [](~(Len(selectedNodeIds) > 0 /\ selectedConnectionId # NULL))
    /\ [][(lastEvent'.name = "connectionSelect"
             => selectedNodeIds' = <<>> /\ selectedConnectionId' = lastEvent'.id)
          /\ ((lastEvent'.name = "pointerDownNode" /\ Len(selectedNodeIds') > 0)
             => selectedConnectionId' = NULL)
          /\ (lastEvent'.name = "addNode" => selectedConnectionId' = NULL)]_vars

\* a connection has been selected on a canvas with two nodes
C7_Witness ==
    /\ lastEvent.name = "connectionSelect"
    /\ selectedConnectionId # NULL
    /\ Len(nodes) = 2

\* the position of the node with the id of a drag snapshot entry is the
\* entry's position plus (dx, dy)
DisplacedBy(dx, dy) ==
    \A k \in 1..Len(dragStartNodes) : \A i \in 1..Len(nodes) :
        nodes[i].id = dragStartNodes[k].id =>
            /\ nodes[i].x = dragStartNodes[k].startX + dx
            /\ nodes[i].y = dragStartNodes[k].startY + dy

\* C8: the drag displacement is exact and uniform.  While a drag that started
\* with the cursor at c0 is on, after a pointer move to c every node of the
\* dragged selection is at its position of the drag's start plus (c - c0).
C8_DragDisplacement ==
    (draggingNodeId # NULL /\ lastEvent.name = "pointerMove")
        => DisplacedBy(lastEvent.c.x - dragStartMousePos.x,
                       lastEvent.c.y - dragStartMousePos.y)

\* C9: a pointer move of a drag changes only the x and the y of the nodes
\* selected at the drag's start: the other nodes, every node's width, height,
\* title, description, status and type, the connections and the selection are
\* unchanged.
C9_DragFrame ==
    [][(lastEvent'.name = "pointerMove" /\ draggingNodeId # NULL)
       => /\ Len(nodes') = Len(nodes)
          /\ \A i \in 1..Len(nodes) :
                /\ [nodes'[i] EXCEPT !.x = 0, !.y = 0] = [nodes[i] EXCEPT !.x = 0, !.y = 0]
                /\ (\A k \in 1..Len(dragStartNodes) : dragStartNodes[k].id # nodes[i].id)
                      => nodes'[i] = nodes[i]
          /\ connections' = connections
          /\ selectedNodeIds' = selectedNodeIds
          /\ selectedConnectionId' = selectedConnectionId]_vars

\* C10: a resize never makes a node narrower than 150 or shorter than 80.
\* A resize starts from the size of its node and the cursor of its pointer-down,
\* and after every pointer move of the resize the node's width is
\* max(150, initial width + dx) and its height max(80, initial height + dy).
C10_ResizeClamped ==
    /\ \A i \in 1..Len(nodes) : nodes[i].width >= 150 /\ nodes[i].height >= 80
    /\ (lastEvent.name = "resizeStart" /\ lastEvent.branch = "resize") =>
          /\ resizingNodeId = lastEvent.id
          /\ resizeStartPos = lastEvent.c
          /\ \A i \in 1..Len(nodes) : nodes[i].id = resizingNodeId =>
                /\ initialNodeSize.width = nodes[i].width
                /\ initialNodeSize.height = nodes[i].height
    /\ (lastEvent.name = "pointerMove" /\ resizingNodeId # NULL) =>
          LET w == initialNodeSize.width + (lastEvent.c.x - resizeStartPos.x)
              h == initialNodeSize.height + (lastEvent.c.y - resizeStartPos.y)
          IN \A i \in 1..Len(nodes) : nodes[i].id = resizingNodeId =>
                /\ nodes[i].width = (IF w < 150 THEN 150 ELSE w)
                /\ nodes[i].height = (IF h < 80 THEN 80 ELSE h)

\* a resize move with a negative delta has stopped at the minimum size
C10_Witness ==
    /\ lastEvent.name = "pointerMove" /\ resizingNodeId # NULL
    /\ lastEvent.c.x < resizeStartPos.x /\ lastEvent.c.y < resizeStartPos.y
    /\ initialNodeSize.width + (lastEvent.c.x - resizeStartPos.x) < 150
    /\ \E i \in 1..Len(nodes) :
          nodes[i].id = resizingNodeId /\ nodes[i].width = 150 /\ nodes[i].height = 80

\* C11: a resize affects only the node whose resize handle was pressed, and
\* only its width and height.  The pointer-down on the handle changes no node,
\* no connection and no selection; a pointer move of the resize leaves the
\* position of that node, every other node, the connections and the selection
\* as they are.
C11_ResizeFrame ==
    [][/\ lastEvent'.name = "resizeStart"
          => /\ nodes' = nodes
             /\ connections' = connections
             /\ selectedNodeIds' = selectedNodeIds
             /\ selectedConnectionId' = selectedConnectionId
       /\ (lastEvent'.name = "pointerMove" /\ resizingNodeId # NULL)
          => /\ Len(nodes') = Len(nodes)
             /\ \A i \in 1..Len(nodes) :
                   /\ [nodes'[i] EXCEPT !.width = 0, !.height = 0]
                         = [nodes[i] EXCEPT !.width = 0, !.height = 0]
                   /\ nodes[i].id # resizingNodeId => nodes'[i] = nodes[i]
             /\ connections' = connections
             /\ selectedNodeIds' = selectedNodeIds
             /\ selectedConnectionId' = selectedConnectionId]_vars

\* a move of a resize has changed the size of its node, and the other node has
\* the size it was made with
C11_Witness ==
    /\ lastEvent.name = "pointerMove" /\ resizingNodeId # NULL
    /\ lastEvent.c # resizeStartPos
    /\ \E i, j \in 1..Len(nodes) :
          /\ nodes[i].id = resizingNodeId /\ nodes[i].width # initialNodeSize.width
          /\ nodes[j].id # resizingNodeId
          /\ nodes[j].width = DefaultWidth /\ nodes[j].height = DefaultHeight

\* C12: a pointer-down on a node's body with no modifier key held makes the
\* node selection exactly that one node.
C12_PlainClickSelectsOne ==
    [][(lastEvent'.name = "pointerDownNode" /\ ~lastEvent'.flag)
       => selectedNodeIds' = <<lastEvent'.id>>]_vars

\* C12, amended: a pointer-down with no modifier key held on the body of a node
\* that is not selected makes the node selection exactly that node; on the
\* body of a selected node it leaves the node selection as it is.
C12_PlainClickAmended ==
    [][(lastEvent'.name = "pointerDownNode" /\ ~lastEvent'.flag)
       => IF lastEvent'.id \in Range(selectedNodeIds)
          THEN selectedNodeIds' = selectedNodeIds
          ELSE selectedNodeIds' = <<lastEvent'.id>>]_vars

\* a pointer-down without a modifier on a node of a selection of two has
\* started a drag and kept both selected
C12_Witness ==
    /\ lastEvent.name = "pointerDownNode" /\ ~lastEvent.flag
    /\ lastEvent.branch = "drag"
    /\ Len(selectedNodeIds) = 2
    /\ lastEvent.id \in Range(selectedNodeIds)

\* C13: a pointer-down on a node's body with shift, ctrl or meta held toggles
\* the node's membership in the node selection: the node is added if it was
\* absent and removed if it was present, and every other selected id is kept.
C13_ModifierToggles ==
    [][(lastEvent'.name = "pointerDownNode" /\ lastEvent'.flag)
       => /\ (lastEvent'.id \in Range(selectedNodeIds'))
                = (lastEvent'.id \notin Range(selectedNodeIds))
          /\ Count(selectedNodeIds', lastEvent'.id) <= 1
          /\ \A id \in (Range(selectedNodeIds) \cup Range(selectedNodeIds')) \ {lastEvent'.id} :
                Count(selectedNodeIds', id) = Count(selectedNodeIds, id)]_vars

\* a pointer-down with a modifier has removed a node from the selection and
\* left another one in it
C13_Witness ==
    /\ lastEvent.name = "pointerDownNode" /\ lastEvent.flag
    /\ lastEvent.branch = "deselect"
    /\ lastEvent.id \notin Range(selectedNodeIds)
    /\ Len(selectedNodeIds) >= 1

\* C14: a pointer-down on the empty canvas with no modifier empties the node
\* selection and the marquee baseline; with shift, ctrl or meta held it leaves
\* the node selection as it is and records it as the baseline.  Either way the
\* selected connection is cleared and a marquee starts at the down-point.
C14_CanvasPointerDown ==
    [][lastEvent'.name = "pointerDownCanvas"
       => /\ ~lastEvent'.flag => (selectedNodeIds' = <<>> /\ selectionBaseline' = <<>>)
          /\ lastEvent'.flag => (/\ selectedNodeIds' = selectedNodeIds
                                 /\ selectionBaseline' = selectedNodeIds)
          /\ selectedConnectionId' = NULL
          /\ selectionBox' = <<[startX |-> lastEvent'.c.x, startY |-> lastEvent'.c.y,
                                endX |-> lastEvent'.c.x, endY |-> lastEvent'.c.y]>>]_vars

\* a pointer-down on the canvas with a modifier has recorded a selection as
\* the baseline
C14_Witness ==
    /\ lastEvent.name = "pointerDownCanvas" /\ lastEvent.flag
    /\ Len(selectionBaseline) > 0
    /\ selectionBaseline = selectedNodeIds
    /\ selectionBox # <<>>

\* the ids of the nodes whose bounding box overlaps the rectangle spanned by
\* the points (ax, ay) and (bx, by)
OverlappingIds(ax, ay, bx, by) ==
    {nodes[i].id : i \in {j \in 1..Len(nodes) :
        /\ nodes[j].x < Max(ax, bx) /\ nodes[j].x + nodes[j].width > Min(ax, bx)
        /\ nodes[j].y < Max(ay, by) /\ nodes[j].y + nodes[j].height > Min(ay, by)}}

\* C15: during a marquee, after every pointer move the node selection is the
\* baseline together with the nodes whose bounding box overlaps the rectangle
\* spanned by the down-point and the cursor of the move, whichever corner the
\* marquee started from and whatever the earlier moves were, and no id is in
\* the selection twice.
C15_MarqueeSelection ==
    (selectionBox # <<>> /\ lastEvent.name = "pointerMove")
        => /\ Range(selectedNodeIds) =
                 Range(selectionBaseline)
                 \cup OverlappingIds(selectionBox[1].startX, selectionBox[1].startY,
                                     lastEvent.c.x, lastEvent.c.y)
           /\ \A id \in Range(selectedNodeIds) : Count(selectedNodeIds, id) = 1

\* C16: pressing Escape, from every interaction state and whatever has the
\* input focus, leaves no connection draft, no marquee rectangle, an empty node
\* selection and no selected connection.
C16_EscapeClearsAll ==
    lastEvent.name = "escape"
        => /\ connectionDraft = <<>>
           /\ selectionBox = <<>>
           /\ selectedNodeIds = <<>>
           /\ selectedConnectionId = NULL

\* the nodes, the connections and the selection of a step are unchanged
GraphAndSelectionUnchanged ==
    /\ nodes' = nodes
    /\ connections' = connections
    /\ selectedNodeIds' = selectedNodeIds
    /\ selectedConnectionId' = selectedConnectionId

\* C17: Delete or Backspace while no INPUT or TEXTAREA has the focus removes
\* the whole node selection with the connections of its nodes, or the
\* selected connection, whichever there is; while a text control has the focus
\* it changes no node, no connection and no selection.
C17_DeleteKey ==
    [][lastEvent'.name = "delete"
       => IF lastEvent'.flag THEN GraphAndSelectionUnchanged
          ELSE IF Len(selectedNodeIds) > 0
          THEN /\ \A n \in Range(nodes) \cup Range(nodes') :
                     Count(nodes', n) =
                        IF n.id \in Range(selectedNodeIds) THEN 0 ELSE Count(nodes, n)
               /\ \A cn \in Range(connections) \cup Range(connections') :
                     Count(connections', cn) =
                        IF \/ cn.from \in Range(selectedNodeIds)
                           \/ cn.to \in Range(selectedNodeIds)
                        THEN 0 ELSE Count(connections, cn)
               /\ selectedNodeIds' = <<>>
               /\ selectedConnectionId' = NULL
          ELSE IF selectedConnectionId # NULL
          THEN /\ \A cn \in Range(connections) \cup Range(connections') :
                     Count(connections', cn) =
                        IF cn.id = selectedConnectionId THEN 0 ELSE Count(connections, cn)
               /\ nodes' = nodes
               /\ selectedNodeIds' = <<>>
               /\ selectedConnectionId' = NULL
          ELSE GraphAndSelectionUnchanged]_vars

\* Delete has removed the selected connection; the other connection and all
\* three nodes are there
C17_Witness ==
    /\ lastEvent.name = "delete" /\ ~lastEvent.flag
    /\ lastEvent.branch = "connection"
    /\ Len(connections) = 1
    /\ Len(nodes) = 3

C19_EscapeEndsDragAndResize ==
    [][(lastEvent.cancelled /\ lastEvent'.name = "pointerMove")
       => /\ Len(nodes') = Len(nodes)
          /\ \A i \in 1..Len(nodes) :
                /\ nodes'[i].x = nodes[i].x /\ nodes'[i].y = nodes[i].y
                /\ nodes'[i].width = nodes[i].width
                /\ nodes'[i].height = nodes[i].height]_vars

\* C20: every node has an id different from every other node's id, and every
\* connection an id different from every other connection's id.
C20_UniqueIds ==
    /\ \A i, j \in 1..Len(nodes) : nodes[i].id = nodes[j].id => i = j
    /\ \A i, j \in 1..Len(connections) : connections[i].id = connections[j].id => i = j

----------------------------------------------------------------------------
(* Persistence *)

\* the metadata index under the index key, as getCanvases returns it
StoredIndex == getCanvases(localStorage, "none").value

\* C21: the metadata index that getCanvases returns is in non-increasing
\* order of lastModified, after any calls of saveCanvas and deleteCanvas at
\* any clock readings
C21_IndexSorted ==
    \A i \in 1..Len(StoredIndex), j \in 1..Len(StoredIndex) :
        i < j => StoredIndex[i].lastModified >= StoredIndex[j].lastModified

\* a save at an older clock reading than an entry the index already holds
C21_Witness ==
    /\ storeEvent.op = "saveCanvas"
    /\ ~storeEvent.threw
    /\ Len(StoredIndex) = 2
    /\ StoredIndex[2].id = storeEvent.id
    /\ StoredIndex[1].lastModified > StoredIndex[2].lastModified

\* the positions of the index that hold an entry for the id
IndexEntries(id) == {i \in 1..Len(StoredIndex) : StoredIndex[i].id = id}

\* the ids of the documents the store holds
StoredIds == {id \in CanvasIds : localStorage.canvas[id].text # "none"}

\* C22: while the store works, after saveCanvas(doc) loadCanvas(doc.id)
\* returns doc and the index holds exactly one entry for doc.id, with doc's
\* name; after deleteCanvas(id) loadCanvas(id) returns nothing and the index
\* holds no entry for id; and in every state the ids of the index are the
\* ids of the stored documents
C22_UpsertAndDelete ==
    ~storeEvent.failed =>
        /\ storeEvent.op = "saveCanvas" =>
              LET doc == storeEvent.canvas[1]
              IN /\ storageService_loadCanvas(localStorage, doc.id, "none").value = <<doc>>
                 /\ Cardinality(IndexEntries(doc.id)) = 1
                 /\ \A i \in IndexEntries(doc.id) : StoredIndex[i].name = doc.name
        /\ storeEvent.op = "deleteCanvas" =>
              /\ storageService_loadCanvas(localStorage, storeEvent.id, "none").value = <<>>
              /\ IndexEntries(storeEvent.id) = {}
        /\ {StoredIndex[i].id : i \in 1..Len(StoredIndex)} = StoredIds

\* a document is saved over its stored version, next to another document
C22_Witness ==
    /\ ~storeEvent.failed
    /\ storeEvent.op = "saveCanvas"
    /\ storeEvent.existed
    /\ Cardinality(StoredIds) = 2

\* C23: a store that throws on a read or a write, or holds a damaged entry,
\* never makes a call of storageService throw: getCanvases returns the empty
\* list, loadCanvas returns nothing, saveCanvas and deleteCanvas return
C23_FailuresContained ==
    /\ ~storeEvent.threw
    /\ (/\ storeEvent.op = "getCanvases"
        /\ (storeEvent.fault = "getItem" \/ localStorage.index.text = "garbled"))
          => storeEvent.value = <<>>
    /\ (/\ storeEvent.op = "loadCanvas"
        /\ (storeEvent.fault = "getItem"
               \/ localStorage.canvas[storeEvent.id].text = "garbled"))
          => storeEvent.value = <<>>

\* the quota is exceeded at the write of the index, which is damaged already
C23_Witness ==
    /\ storeEvent.op = "saveCanvas"
    /\ storeEvent.fault = "setIndex"
    /\ localStorage.index.text = "garbled"

----------------------------------------------------------------------------
(* Auto-save *)

\* a step that opens a document
IsLoad == lastEvent'.name \in {"loadCanvas", "createNewCanvas", "importLoaded"}

\* a step that edits the open diagram: its nodes, connections or name
IsEdit ==
    /\ ~IsLoad
    /\ currentCanvasId # NULL
    /\ <<nodes, connections, currentCanvasName>>' # <<nodes, connections, currentCanvasName>>

\* the document the store holds under the id of the open canvas is the diagram
StoredIsCurrent ==
    LET found == storageService_loadCanvas(localStorage, currentCanvasId, "none").value
    IN /\ found # <<>>
       /\ Closure(found[1].id, found[1].name, found[1].nodes, found[1].connections)
             = Closure(currentCanvasId, currentCanvasName, nodes, connections)

\* C24: every edit schedules a write of the state it leaves; a scheduled
\* write is dropped only for the write of a later edit or by being issued;
\* and the write that is issued stores the state after the last edit and
\* leaves no write scheduled (a burst of edits causes exactly one write)
C24_DebouncedWrite ==
    [][/\ IsEdit => saveTimer' = <<Closure(currentCanvasId', currentCanvasName',
                                           nodes', connections')>>
       /\ (saveTimer # <<>> /\ saveTimer' # saveTimer)
             => (IsEdit \/ lastEvent'.name = "autosave")
       /\ lastEvent'.name = "autosave" => (StoredIsCurrent' /\ saveTimer' = <<>>)]_vars

\* C25: a document that is loaded and not edited afterwards is not written
\* back: the load leaves no write scheduled, and every write of the
\* auto-save follows an edit made since the last load or write
C25_LoadNotWrittenBack ==
    [][/\ (IsLoad /\ lastEvent'.id = currentCanvasId')
             => (saveTimer' = <<>> /\ ~dirty')
       /\ (~dirty /\ ~IsEdit /\ ~IsLoad)
             => (saveTimer' = <<>> /\ localStorage' = localStorage)
       /\ lastEvent'.name = "autosave" => dirty]_vars

\* a stored document with a node was loaded from the sidebar, the timer of
\* the load has fired, and nothing is scheduled
C25_Witness ==
    /\ lastEvent.name = "skipTimer"
    /\ storeEvent.op = "loadCanvas"
    /\ storeEvent.value # <<>>
    /\ nodes # <<>>
    /\ ~dirty
    /\ ~skipSave
    /\ saveTimer = <<>>
    /\ Len(canvases) = 2
    /\ canvases[1].id # currentCanvasId

----------------------------------------------------------------------------
(* Import *)

\* the file is no JSON, or has no array of nodes or no array of connections
LacksArrays(file) ==
    \/ ~file.json
    \/ file.nodes = <<>> \/ file.connections = <<>>
    \/ ~IsArray(file.nodes[1]) \/ ~IsArray(file.connections[1])

\* C29: the import of a file that is malformed JSON, or has no nodes array
\* or no connections array, is rejected with an error shown to the user and
\* changes nothing: the store (documents and index), the current canvas id,
\* the nodes and the connections are as before
C29_ImportValidated ==
    [][(lastEvent'.name = "importLoaded" /\ LacksArrays(fileReads[1]))
          => /\ ~lastEvent'.flag
             /\ lastEvent'.branch # ""
             /\ localStorage' = localStorage
             /\ <<currentCanvasId, nodes, connections>>'
                   = <<currentCanvasId, nodes, connections>>]_vars

\* C30: an import that is accepted stores the document under an id that no
\* stored document had, leaves every document stored before as it was, and
\* makes the imported document the current canvas, with nothing selected
C30_ImportCreatesDocument ==
    [][(lastEvent'.name = "importLoaded" /\ lastEvent'.flag)
          => LET id == lastEvent'.id
                 file == fileReads[1]
                 stored == storageService_loadCanvas(localStorage', id, "none").value
             IN /\ id \notin StoredIds
                /\ StoredIds' = StoredIds \cup {id}
                /\ \A other \in StoredIds :
                      localStorage'.canvas[other] = localStorage.canvas[other]
                /\ stored # <<>>
                /\ stored[1].nodes = file.nodes[1]
                /\ stored[1].connections = file.connections[1]
                /\ currentCanvasId' = id
                /\ currentCanvasName' = stored[1].name
                /\ nodes' = file.nodes[1]
                /\ connections' = file.connections[1]
                /\ selectedNodeIds' = <<>>
                /\ selectedConnectionId' = NULL]_vars

\* a file with a node was imported next to two stored documents
C30_Witness ==
    /\ lastEvent.name = "importLoaded"
    /\ lastEvent.flag
    /\ Cardinality(StoredIds) = 3
    /\ IsArray(nodes)
    /\ Len(nodes) = 1
    /\ currentCanvasName = "Plan (Imported)"

----------------------------------------------------------------------------
(* Generation *)

\* C26: a generation that fails (no answer, an empty answer, an answer
\* that is no JSON or lacks the nodes or the connections) leaves the nodes,
\* the connections and the canvas name as they were, reports the failure
\* and clears the busy flag
C26_FailedGeneration ==
    [][(lastEvent'.name = "generated" /\ lastEvent'.branch # "diagram")
          => /\ <<nodes, connections, currentCanvasName>>'
                   = <<nodes, connections, currentCanvasName>>
             /\ ~lastEvent'.flag
             /\ ~isAIGenerating']_vars

\* an answer without connections came for a diagram that holds a node and
\* still has its default name
C26_Witness ==
    /\ lastEvent.name = "generated"
    /\ lastEvent.branch = "no connections"
    /\ nodes # <<>>
    /\ IsDefaultName(currentCanvasName)
    /\ ~isAIGenerating

\* the diagrams generateWorkflow can return
ReturnedDiagrams ==
    {generateWorkflow(response).value :
        response \in {r \in Responses : ResponseKind(r) = "diagram"}}

\* C27: a generation that succeeds makes the nodes exactly the returned
\* nodes and the connections exactly the returned connections, and what is
\* persisted is never a mix: the write that is scheduled, and the document
\* an auto-save stores, hold the nodes and the connections of the diagram
C27_GenerationReplaces ==
    [][/\ (lastEvent'.name = "generated" /\ lastEvent'.flag)
             => [nodes |-> nodes', connections |-> connections'] \in ReturnedDiagrams
       /\ saveTimer' # <<>>
             => (saveTimer'[1].nodes = nodes' /\ saveTimer'[1].connections = connections')
       /\ lastEvent'.name = "autosave" => StoredIsCurrent']_vars

\* a generated diagram of two nodes and a connection has been stored
C27_Witness ==
    /\ lastEvent.name = "autosave"
    /\ Len(nodes) = 2
    /\ Len(connections) = 1
    /\ StoredIsCurrent

\* C28: at most one generation request is outstanding; while it is, the busy
\* flag is set and the Generate button is disabled, whether or not the
\* dialog was cancelled and opened again; and the flag is cleared when the
\* request settles, with a diagram or with a failure
C28_OneRequest ==
    /\ Len(requests) <= 1
    /\ requests # <<>> => (isAIGenerating /\ GenerateDisabled)
    /\ lastEvent.name = "generated" => ~isAIGenerating

\* the dialog was cancelled and opened again while the request is outstanding,
\* with a prompt in it
C28_Witness ==
    /\ lastEvent.name = "openPrompt"
    /\ requests # <<>>
    /\ showAIPrompt
    /\ Trim(aiPromptText) # ""

\* a generation settles with a diagram while the open canvas is not the one
\* the request was started on
IsLateResult ==
    /\ lastEvent' # lastEvent
    /\ lastEvent'.name = "generated"
    /\ lastEvent'.flag
    /\ requests # <<>>
    /\ requests[1].canvas # currentCanvasId

\* C33: the result of a generation that was started on canvas A and settles
\* after canvas B was opened replaces the nodes and the connections of B;
\* a write of them under the id of B is scheduled, and nothing stored, the
\* document of A included, is changed by the result
C33_LateResultLands ==
    [][IsLateResult
          => /\ [nodes |-> nodes', connections |-> connections'] \in ReturnedDiagrams
             /\ currentCanvasId' = currentCanvasId
             /\ saveTimer' = <<Closure(currentCanvasId, currentCanvasName', nodes',
                                       connections')>>
             /\ localStorage' = localStorage]_vars

----------------------------------------------------------------------------
(* Export and import *)

----------------------------------------------------------------------------
(* Edits by id *)

ConnectionIds(cs) == {cs[i].id : i \in 1..Len(cs)}

\* C32: deleting a node or a connection whose id is not on the canvas,
\* updating a node whose id is not on the canvas and deleting a canvas whose
\* id is not in the store raise no error and leave the nodes, the
\* connections, the stored documents and the index as they were
C32_TotalOperations ==
    [][/\ (/\ lastEvent' # lastEvent
           /\ lastEvent'.name \in {"nodeDelete", "nodeUpdate"}
           /\ lastEvent'.id \notin NodeIds(nodes))
          => /\ nodes' = nodes
             /\ connections' = connections
             /\ localStorage' = localStorage
       /\ (/\ lastEvent' # lastEvent
           /\ lastEvent'.name = "connectionDelete"
           /\ lastEvent'.id \notin ConnectionIds(connections))
          => /\ nodes' = nodes
             /\ connections' = connections
             /\ localStorage' = localStorage
       /\ (/\ storeEvent' # storeEvent
           /\ storeEvent'.op = "deleteCanvas"
           /\ ~storeEvent'.existed)
          => /\ ~storeEvent'.threw
             /\ nodes' = nodes
             /\ connections' = connections
             /\ localStorage' = localStorage]_vars

\* C39: a click on the status button takes todo to in-progress, in-progress
\* to done and done to todo, so that three clicks restore the status; it
\* changes the status of that node and nothing else of the canvas
C39_StatusCycle ==
    [][(lastEvent' # lastEvent /\ lastEvent'.name = "statusToggle")
          => LET i == FindNode(nodes, lastEvent'.id)
                 old == nodes[i].status
             IN /\ nodes' = [nodes EXCEPT ![i].status = nodes'[i].status]
                /\ nodes'[i].status = (IF old = "todo" THEN "in-progress"
                                       ELSE IF old = "in-progress" THEN "done"
                                       ELSE "todo")
                /\ NextStatus(NextStatus(NextStatus(old))) = old
                /\ old \in Range(Statuses)
                /\ UNCHANGED <<connections, selVars, connectionDraft>>]_vars

\* the status button of a node was clicked three times while the other node
\* was edited and a connection deleted
C39_Witness ==
    /\ lastEvent.name = "statusToggle"
    /\ lastEvent.branch = "done"
    /\ Len(nodes) = 2
    /\ nodes[FindNode(nodes, lastEvent.id)].status = "todo"
    /\ \E i \in 1..Len(nodes) : nodes[i].id # lastEvent.id /\ nodes[i].title = "Edited"
                                   /\ nodes[i].status = "in-progress"
    /\ connections = <<>>

----------------------------------------------------------------------------
(* The open canvas *)

\* the open canvas is a document of the store and of the index
OpenIsStored ==
    /\ currentCanvasId # NULL
    /\ currentCanvasId \in StoredIds
    /\ IndexEntries(currentCanvasId) # {}

\* no document of the index was modified later than the open canvas
OpenIsMostRecent ==
    \E i \in IndexEntries(currentCanvasId) :
        \A j \in 1..Len(StoredIndex) : StoredIndex[j].lastModified <= StoredIndex[i].lastModified

\* C37: with a working store, the open canvas is never null and is always a
\* document of the store and of the index; the start of the app opens the
\* most recently modified document; and the deletion of the open canvas
\* opens the most recently modified of the remaining documents, or a newly
\* created and stored one when none remains
C37_OpenStoredDocument ==
    [][/\ OpenIsStored
       /\ OpenIsStored'
       /\ (lastEvent' # lastEvent /\ lastEvent'.name = "mount") => OpenIsMostRecent'
       /\ (lastEvent' # lastEvent /\ lastEvent'.name = "deleteCanvas"
             /\ lastEvent'.id = currentCanvasId)
             => /\ lastEvent'.id \notin StoredIds'
                /\ OpenIsMostRecent'
                /\ IF StoredIds = {currentCanvasId}
                   THEN currentCanvasId' \notin StoredIds /\ StoredIds' = {currentCanvasId'}
                   ELSE currentCanvasId' \in StoredIds \ {currentCanvasId}]_vars

\* the open canvas was deleted while an older document with a node remained,
\* and that document was opened
C37_Witness ==
    /\ lastEvent.name = "deleteCanvas"
    /\ lastEvent.flag
    /\ lastEvent.branch = "load"
    /\ currentCanvasId = 1
    /\ Len(nodes) = 1
    /\ StoredIds = {1}

----------------------------------------------------------------------------
(* Edits and the store *)

\* nothing is pending: no timer, no request, no file being read
Quiescent ==
    /\ saveTimer = <<>>
    /\ skipTimers = 0
    /\ requests = <<>>
    /\ fileReads = <<>>

\* C34: no edit is lost.  Once the timers have fired, the store holds the
\* open diagram under the id of the open canvas: when nothing is pending any
\* more, every edit made to the open document has been written
C34_NoEditLost == Quiescent => StoredIsCurrent

\* a timer that was set is the closure of the open canvas as it is
TimerIsCurrent ==
    saveTimer # <<>>
       => saveTimer[1] = Closure(currentCanvasId, currentCanvasName, nodes, connections)

\* C35: auto-save never mixes documents.  A pending write is always the
\* closure of the open canvas as it is, so no pending write outlives a
\* switch of canvas; and a write of the auto-save stores, under the id of
\* the canvas that is open, the name, the nodes and the connections that
\* canvas has, and changes no other document
C35_NoMixedWrite ==
    [][/\ TimerIsCurrent
       /\ TimerIsCurrent'
       /\ currentCanvasId' # currentCanvasId => saveTimer' = <<>>
       /\ (lastEvent' # lastEvent /\ lastEvent'.name = "autosave")
             => /\ lastEvent'.id = currentCanvasId
                /\ currentCanvasId' = currentCanvasId
                /\ StoredIsCurrent'
                /\ \A id \in CanvasIds \ {currentCanvasId} :
                      localStorage'.canvas[id] = localStorage.canvas[id]]_vars

\* a renamed canvas with a node was stored by the auto-save while another
\* canvas, opened and left before, is in the store
C35_Witness ==
    /\ lastEvent.name = "autosave"
    /\ currentCanvasId = 1
    /\ currentCanvasName = "Plan"
    /\ Len(nodes) = 1
    /\ StoredIds = {1, 2}
    /\ StoredIsCurrent

----------------------------------------------------------------------------
(* The selection and the canvas *)

\* C36: the selection never dangles.  Every id of the node selection is the
\* id of a node of the canvas, and the selected connection, if there is one,
\* is a connection of the canvas
C36_SelectionNeverDangles ==
    /\ \A k \in 1..Len(selectedNodeIds) : selectedNodeIds[k] \in NodeIds(nodes)
    /\ selectedConnectionId # NULL => selectedConnectionId \in ConnectionIds(connections)

----------------------------------------------------------------------------
(* Clicks with a modifier key *)

\* the x and the y of every node
Positions(ns) == [i \in 1..Len(ns) |-> <<ns[i].id, ns[i].x, ns[i].y>>]

\* C38: a pointer-down with a modifier key on a selected node only deselects
\* it: no drag is on after it, and the pointer moves up to the next
\* pointer-down change no node's position (a move changes positions only
\* while a drag is on, and a drag begins only at a pointer-down on a node).
\* Every other pointer-down on a node starts a drag of the resulting
\* selection, which includes the pressed node
C38_ModifierClickDeselects ==
    [][/\ (lastEvent'.name = "pointerDownNode" /\ lastEvent'.branch = "deselect")
             => /\ selectedNodeIds' = Deselect(selectedNodeIds, <<lastEvent'.id>>)
                /\ draggingNodeId' = NULL
                /\ nodes' = nodes
       /\ (draggingNodeId = NULL /\ lastEvent'.name = "pointerMove")
             => Positions(nodes') = Positions(nodes)
       /\ (draggingNodeId = NULL /\ draggingNodeId' # NULL)
             => (lastEvent'.name = "pointerDownNode" /\ lastEvent'.branch = "drag")
       /\ (lastEvent'.name = "pointerDownNode" /\ lastEvent'.branch = "drag")
             => /\ ~(lastEvent'.flag /\ Includes(selectedNodeIds, lastEvent'.id))
                /\ draggingNodeId' = lastEvent'.id
                /\ Includes(selectedNodeIds', lastEvent'.id)
                /\ {dragStartNodes'[k].id : k \in 1..Len(dragStartNodes')}
                      = Range(selectedNodeIds')]_vars

====
